---- MODULE Spec2Model ----
(***************************************************************************)
(* Model of the music-trends dashboard (src/panel/app.py).                 *)
(*                                                                         *)
(* The program is a Streamlit script: every UI interaction re-executes     *)
(* main() from top to bottom against a table that load_data() reads from   *)
(* a CSV file and that st.cache_data memoizes for the process lifetime.    *)
(* State: the file system (where the dataset exists, what it contains),    *)
(* the memo of load_data, counters of the loader's side effects, and the   *)
(* page rendered by the last script run.                                   *)
(*                                                                         *)
(* Numbers.  Counts are naturals.  A percentage rounded to one decimal is  *)
(* an integer number of tenths (33.3 is 333).  A float that is NaN, and a  *)
(* missing numeric cell, is the value NaN; a missing text cell is NA.      *)
(***************************************************************************)
EXTENDS Integers, Sequences, FiniteSets, TLC

VARIABLES
    fs,         \* set of candidate locations at which the dataset file exists
    csv,        \* content of the dataset file: [cols, rows]
    observed,   \* pandas build: TRUE iff groupby lists only observed categories
    cache,      \* st.cache_data memo of load_data(): [hit, df]
    reads,      \* number of pd.read_csv calls made so far
    derives,    \* number of times the Age_Group column was derived
    run         \* the page rendered by the last execution of the script

vars == <<fs, csv, observed, cache, reads, derives, run>>

-----------------------------------------------------------------------------
(* Bounds of the model.                                                    *)

MaxRows == 3    \* records in a dataset file
MaxReads == 2   \* pd.read_csv calls followed in one behaviour

-----------------------------------------------------------------------------
(* Values.                                                                 *)

NaN == 0 - 1
NA == "<NA>"

Range(s) == {s[i] : i \in DOMAIN s}

\* Series.unique(): the distinct values in order of first appearance
RECURSIVE Unique(_)
Unique(s) ==
    IF s = <<>> THEN <<>>
    ELSE LET front == Unique(SubSeq(s, 1, Len(s) - 1))
             last == s[Len(s)]
         IN IF last \in Range(front) THEN front ELSE Append(front, last)

\* number of elements of s equal to v
CountOf(s, v) == Cardinality({i \in DOMAIN s : s[i] = v})

\* numpy's round: num / den rounded to an integer, half to even
RoundHalfEven(num, den) ==
    LET q == num \div den
        r == num % den
    IN IF 2 * r < den THEN q
       ELSE IF 2 * r > den THEN q + 1
       ELSE IF q % 2 = 0 THEN q ELSE q + 1

\* (count / total * 100).round(1) in tenths: 0/0 is NaN, nothing is raised
Percentage(count, total) ==
    IF total = 0 THEN NaN ELSE RoundHalfEven(1000 * count, total)

-----------------------------------------------------------------------------
(* Columns of the dataset.                                                 *)

ColAge == "Age"
ColCountry == "Country"
ColPlatform == "Streaming Platform"
ColGenre == "Top Genre"
ColSub == "Subscription Type"
ColMinutes == "Minutes Streamed Per Day"
ColLiked == "Number of Songs Liked"
ColDiscover == "Discover Weekly Engagement (%)"
ColRepeat == "Repeat Song Rate (%)"
ColTime == "Listening Time (Morning/Afternoon/Night)"
ColArtist == "Most Played Artist"
ColAgeGroup == "Age_Group"

required_columns == <<ColAge, ColCountry, ColPlatform, ColGenre>>

quantitative_vars == <<ColMinutes, ColLiked, ColDiscover, ColRepeat>>

GenZ == "Gen Z (13-25)"
Millennials == "Millennials (26-41)"
GenX == "Gen X (42-60)"

\* pd.cut(df['Age'], bins=[0, 25, 41, 100], labels=[...])
CutBins == <<0, 25, 41, 100>>
CutLabels == <<GenZ, Millennials, GenX>>

\* the bins an age falls into: pd.cut's intervals are open on the left and
\* closed on the right, (0,25], (25,41], (41,100]
CutHits(age) ==
    {i \in 1..Len(CutLabels) : CutBins[i] < age /\ age <= CutBins[i + 1]}

\* the label pd.cut attaches; an age in no bin gets NaN (here NA)
Cut(age) ==
    IF CutHits(age) = {} THEN NA
    ELSE CutLabels[CHOOSE i \in CutHits(age) : TRUE]

-----------------------------------------------------------------------------
(* The data loader.                                                        *)

\* candidate locations, in the order load_data tries them: the primary
\* data_path, then alternative_paths[0..2]
PathPrimary == 1
Candidates == <<1, 2, 3, 4>>

NoError == [kind |-> "none", tried |-> <<>>, missing |-> <<>>]

EmptyTable == [cols |-> {}, rows |-> <<>>]

\* data_path after the existence checks; 0 when the for-else raises
DataPath(files) ==
    IF PathPrimary \in files THEN PathPrimary
    ELSE LET alts == {i \in 2..Len(Candidates) : Candidates[i] \in files}
         IN IF alts = {} THEN 0
            ELSE Candidates[CHOOSE i \in alts : \A j \in alts : i <= j]

\* [col for col in required_columns if col not in df.columns]
MissingColumns(cols) ==
    SelectSeq(required_columns, LAMBDA c : c \notin cols)

\* df['Age_Group'] = pd.cut(...): the column is added to every record
WithAgeGroup(file) ==
    [cols |-> file.cols \cup {ColAgeGroup},
     rows |-> [i \in DOMAIN file.rows |->
                 file.rows[i] @@ (ColAgeGroup :> Cut(file.rows[i][ColAge]))]]

\* LoadBody with the Age_Group derivation moved before the validation
LoadBodyDerivesFirst(files, file) ==
    IF DataPath(files) = 0
    THEN [ok |-> FALSE, df |-> EmptyTable, read |-> 0, derived |-> 0,
          error |-> [kind |-> "FileNotFoundError", tried |-> Candidates,
                     missing |-> <<>>]]
    ELSE IF MissingColumns(file.cols) # <<>>
    THEN [ok |-> FALSE, df |-> EmptyTable, read |-> 1, derived |-> 1,
          error |-> [kind |-> "ValueError", tried |-> <<>>,
                     missing |-> MissingColumns(file.cols)]]
    ELSE [ok |-> TRUE, df |-> WithAgeGroup(file), read |-> 1, derived |-> 1,
          error |-> NoError]

\* the body of load_data (what st.cache_data wraps): the outcome of one
\* uncached call.  ok = FALSE is the except branch: st.error, st.info, st.stop
LoadBody(files, file) ==
    IF DataPath(files) = 0
    THEN [ok |-> FALSE, df |-> EmptyTable, read |-> 0, derived |-> 0,
          error |-> [kind |-> "FileNotFoundError", tried |-> Candidates,
                     missing |-> <<>>]]
    ELSE IF MissingColumns(file.cols) # <<>>
    THEN [ok |-> FALSE, df |-> EmptyTable, read |-> 1, derived |-> 0,
          error |-> [kind |-> "ValueError", tried |-> <<>>,
                     missing |-> MissingColumns(file.cols)]]
    ELSE [ok |-> TRUE, df |-> WithAgeGroup(file), read |-> 1, derived |-> 1,
          error |-> NoError]

\* load_data without the st.cache_data decorator
load_data_uncached(memo, files, file) == LoadBody(files, file)

\* @st.cache_data def load_data(): a hit returns the memoized table without
\* running the body; a call that ends in st.stop() stores nothing
load_data(memo, files, file) ==
    IF memo.hit
    THEN [ok |-> TRUE, df |-> memo.df, read |-> 0, derived |-> 0,
          error |-> NoError]
    ELSE LoadBody(files, file)

-----------------------------------------------------------------------------
(* Series helpers (pandas).                                                *)

\* df[c] as a sequence of cells
Column(df, c) == [i \in DOMAIN df.rows |-> df.rows[i][c]]

\* df[df[c] == v]
RowsWhere(df, c, v) == SelectSeq(df.rows, LAMBDA r : r[c] = v)

\* Series.dropna() of a numeric column and of a text column
DropNaN(s) == SelectSeq(s, LAMBDA x : x # NaN)
DropNa(s) == SelectSeq(s, LAMBDA x : x # NA)

RECURSIVE SeqSum(_)
SeqSum(s) == IF s = <<>> THEN 0 ELSE s[Len(s)] + SeqSum(SubSeq(s, 1, Len(s) - 1))

\* Series.mean(): missing cells are skipped; the mean of no value is NaN.
\* A mean is kept exactly, as the pair of its numerator and denominator.
NaNMean == [sum |-> 0, n |-> 0]
Mean(s) == [sum |-> SeqSum(DropNaN(s)), n |-> Len(DropNaN(s))]

\* Series.mean().round(1), in tenths
MeanRound1(s) ==
    IF Len(DropNaN(s)) = 0 THEN NaN
    ELSE RoundHalfEven(10 * SeqSum(DropNaN(s)), Len(DropNaN(s)))

\* the values value_counts() may list first: those of maximal count
TopValues(s) ==
    {v \in Range(DropNa(s)) : \A w \in Range(DropNa(s)) : CountOf(s, w) <= CountOf(s, v)}

\* value_counts().index[0].  Among values of equal count the order is the
\* sort's; tie picks one of the two extreme orders (first or last seen).
TopValue(s, tie) ==
    LET u == Unique(DropNa(s))
        tops == {i \in DOMAIN u : u[i] \in TopValues(s)}
    IN IF tie THEN u[CHOOSE i \in tops : \A j \in tops : i <= j]
       ELSE u[CHOOSE i \in tops : \A j \in tops : i >= j]

\* [var for var in quantitative_vars if var in df.columns]
AvailableVars(df) == SelectSeq(quantitative_vars, LAMBDA c : c \in df.cols)

-----------------------------------------------------------------------------
(* Aggregation functions.                                                  *)

\* the generation create_age_analysis computes for an age
GenerationBelow(age) ==
    IF age < 25 THEN GenZ
    ELSE IF age < 41 THEN Millennials
    ELSE GenX

Generation(age) ==
    IF age <= 25 THEN GenZ
    ELSE IF age <= 41 THEN Millennials
    ELSE GenX

AgeRange == 13..60

\* create_age_analysis: None (no quantitative variable) or age_df, one row
\* for every age of range(13, 61) that has records
create_age_analysis(df) ==
    IF AvailableVars(df) = <<>>
    THEN [none |-> TRUE, message |-> "No quantitative variables found for age analysis",
          rows |-> {}]
    ELSE [none |-> FALSE, message |-> "",
          rows |-> {[Age |-> age,
                     Generation |-> Generation(age),
                     Count |-> Len(RowsWhere(df, ColAge, age)),
                     Means |-> [k \in DOMAIN AvailableVars(df) |->
                                  Mean([i \in DOMAIN RowsWhere(df, ColAge, age) |->
                                          RowsWhere(df, ColAge, age)[i][AvailableVars(df)[k]]])]]
                    : age \in {a \in AgeRange : Len(RowsWhere(df, ColAge, a)) > 0}}]

\* create_country_analysis: None or country_df, one row per distinct country
create_country_analysis(df) ==
    IF AvailableVars(df) = <<>>
    THEN [none |-> TRUE, message |-> "No quantitative variables found for country analysis",
          rows |-> {}]
    ELSE [none |-> FALSE, message |-> "",
          rows |-> {[Country |-> c,
                     Count |-> Len(RowsWhere(df, ColCountry, c)),
                     Means |-> [k \in DOMAIN AvailableVars(df) |->
                                  Mean([i \in DOMAIN RowsWhere(df, ColCountry, c) |->
                                          RowsWhere(df, ColCountry, c)[i][AvailableVars(df)[k]]])]]
                    : c \in Range(DropNa(Column(df, ColCountry)))}]

\* create_listening_time_analysis: None (column absent) or global_df, one
\* row per listening-time bucket that occurs; the percentage divides the
\* bucket's count by len(df)
create_listening_time_analysis(df) ==
    IF ColTime \notin df.cols
    THEN [none |-> TRUE, message |-> "Listening time column not found", rows |-> {}]
    ELSE [none |-> FALSE, message |-> "",
          rows |-> {[Time_Period |-> t,
                     Count |-> CountOf(Column(df, ColTime), t),
                     Percentage |-> Percentage(CountOf(Column(df, ColTime), t), Len(df.rows))]
                    : t \in Range(DropNa(Column(df, ColTime)))}]

\* df.groupby(['Age_Group', col]).size() merged with
\* df.groupby('Age_Group').size() and the Percentage column.  Age_Group is
\* categorical: a pandas build whose groupby defaults to observed=False
\* lists every category with every value of col (Count 0, Total 0 for a
\* generation without records), one that defaults to observed=True only the
\* pairs that occur.  Records that miss either key are dropped from Count,
\* records that miss col still count in Total
GenerationCrosstab(df, col, obs) ==
    LET both == SelectSeq(df.rows, LAMBDA r : r[ColAgeGroup] # NA /\ r[col] # NA)
        Cnt(g, v) == Cardinality({i \in DOMAIN both :
                                    both[i][ColAgeGroup] = g /\ both[i][col] = v})
        Tot(g) == CountOf(Column(df, ColAgeGroup), g)
        pairs == IF obs
                 THEN {<<both[i][ColAgeGroup], both[i][col]>> : i \in DOMAIN both}
                 ELSE Range(CutLabels) \X Range(DropNa(Column(df, col)))
    IN {[Age_Group |-> p[1], Value |-> p[2], Count |-> Cnt(p[1], p[2]),
         Total |-> Tot(p[1]),
         Percentage |-> Percentage(Cnt(p[1], p[2]), Tot(p[1]))] : p \in pairs}

\* create_streaming_platform_analysis: None or platform_gen_counts
create_streaming_platform_analysis(df, obs) ==
    IF ColPlatform \notin df.cols \/ ColAgeGroup \notin df.cols
    THEN [none |-> TRUE, message |-> "Streaming Platform or Age_Group column not found",
          rows |-> {}]
    ELSE [none |-> FALSE, message |-> "",
          rows |-> GenerationCrosstab(df, ColPlatform, obs)]

\* country_iso_mapping
country_iso_mapping ==
    [c \in {"USA", "UK", "Canada", "Australia", "Germany", "France", "Brazil",
            "Japan", "South Korea", "India"} |->
       CASE c = "USA" -> "USA"
         [] c = "UK" -> "GBR"
         [] c = "Canada" -> "CAN"
         [] c = "Australia" -> "AUS"
         [] c = "Germany" -> "DEU"
         [] c = "France" -> "FRA"
         [] c = "Brazil" -> "BRA"
         [] c = "Japan" -> "JPN"
         [] c = "South Korea" -> "KOR"
         [] c = "India" -> "IND"]

\* country_iso_mapping.get(country, country)
IsoCode(country) ==
    IF country \in DOMAIN country_iso_mapping THEN country_iso_mapping[country]
    ELSE country

\* value_counts().index[0] on the Top Genre or the Most Played Artist of a
\* country raises IndexError when every such cell of the country is missing
ChoroplethRaises(df) ==
    \E c \in Range(DropNa(Column(df, ColCountry))), col \in {ColGenre, ColArtist} \cap df.cols :
        DropNa([i \in DOMAIN RowsWhere(df, ColCountry, c) |->
                  RowsWhere(df, ColCountry, c)[i][col]]) = <<>>

\* create_unified_choropleth_data when it does not raise: one row per
\* distinct country (a missing country equals no value of unique())
create_unified_choropleth_data(df, tie) ==
    {LET sub == [cols |-> df.cols, rows |-> RowsWhere(df, ColCountry, c)]
         total_users == Len(sub.rows)
     IN [Country |-> c,
         ISO_Code |-> IsoCode(c),
         TotalUsers |-> total_users,
         Averages |-> [k \in DOMAIN AvailableVars(df) |->
                         MeanRound1(Column(sub, AvailableVars(df)[k]))],
         MostPopularGenre |->
             IF ColGenre \in df.cols THEN TopValue(Column(sub, ColGenre), tie) ELSE NA,
         GenrePercentage |->
             IF ColGenre \in df.cols
             THEN Percentage(CountOf(Column(sub, ColGenre),
                                     TopValue(Column(sub, ColGenre), tie)), total_users)
             ELSE NaN,
         MostPopularArtist |->
             IF ColArtist \in df.cols THEN TopValue(Column(sub, ColArtist), tie) ELSE NA,
         ArtistPercentage |->
             IF ColArtist \in df.cols
             THEN Percentage(CountOf(Column(sub, ColArtist),
                                     TopValue(Column(sub, ColArtist), tie)), total_users)
             ELSE NaN]
     : c \in Range(DropNa(Column(df, ColCountry)))}

-----------------------------------------------------------------------------
(* Statistics (scipy).                                                     *)

\* the levels of the confidence slider that the model draws (the slider
\* offers every integer from 90 to 99)
ConfLevels == {90, 95, 99}

\* stats.t.ppf((1 + level/100) / 2, dof) in thousandths, dof = 1..15
TCritical(level, dof) ==
    CASE level = 90 -> <<6314, 2920, 2353, 2132, 2015, 1943, 1895, 1860, 1833, 1812,
                         1796, 1782, 1771, 1761, 1753>>[dof]
      [] level = 95 -> <<12706, 4303, 3182, 2776, 2571, 2447, 2365, 2306, 2262, 2228,
                         2201, 2179, 2160, 2145, 2131>>[dof]
      [] level = 99 -> <<63657, 9925, 5841, 4604, 4032, 3707, 3499, 3355, 3250, 3169,
                         3106, 3055, 3012, 2977, 2947>>[dof]

\* floor of the square root
RECURSIVE SqrtSearch(_, _, _)
SqrtSearch(x, lo, hi) ==
    IF lo >= hi THEN lo
    ELSE LET mid == (lo + hi + 1) \div 2
         IN IF mid * mid <= x THEN SqrtSearch(x, mid, hi)
            ELSE SqrtSearch(x, lo, mid - 1)

Isqrt(x) == SqrtSearch(x, 0, 40000)

RECURSIVE SumSquares(_)
SumSquares(s) ==
    IF s = <<>> THEN 0
    ELSE s[Len(s)] * s[Len(s)] + SumSquares(SubSeq(s, 1, Len(s) - 1))

\* data.mean() in hundredths (data has no missing cell and is not empty)
MeanCenti(data) == (100 * SeqSum(data)) \div Len(data)

\* stats.sem(data) in hundredths: the sample standard deviation (ddof = 1)
\* over sqrt(n); NaN for a single value (0/0)
Sem(data) ==
    LET n == Len(data)
    IN IF n < 2 THEN NaN
       ELSE Isqrt((10000 * (n * SumSquares(data) - SeqSum(data) * SeqSum(data)))
                  \div (n * n * (n - 1)))

NoInterval == [shown |-> FALSE, nan |-> FALSE, n |-> 0, mean |-> 0, lo |-> 0, hi |-> 0]

\* stats.t.interval(confidence_level, len(data) - 1, mean, std_error), in
\* hundredths: mean -/+ t * std_error, NaN when the standard error is NaN
ConfidenceInterval(data, level) ==
    IF Sem(data) = NaN
    THEN [shown |-> TRUE, nan |-> TRUE, n |-> Len(data), mean |-> MeanCenti(data),
          lo |-> 0, hi |-> 0]
    ELSE LET half == (TCritical(level, Len(data) - 1) * Sem(data)) \div 1000
         IN [shown |-> TRUE, nan |-> FALSE, n |-> Len(data), mean |-> MeanCenti(data),
             lo |-> MeanCenti(data) - half, hi |-> MeanCenti(data) + half]

\* df.select_dtypes(include=[np.number]).columns, in the file's column order
NumericColumns == <<ColAge, ColMinutes, ColLiked, ColDiscover, ColRepeat>>
numerical_cols(df) == SelectSeq(NumericColumns, LAMBDA c : c \in df.cols)

\* the numeric columns whose name contains 'stream' or 'minute'
streaming_cols(df) == SelectSeq(<<ColMinutes>>, LAMBDA c : c \in df.cols)

\* Shapiro-Wilk is run on samples of at most this many values
ShapiroLimit == 5000

\* the smallest samples scipy's shapiro and normaltest (skewtest) accept.
\* Below them the call raises ValueError on the scipy builds before 1.14;
\* later builds return nan with a warning
ShapiroMin == 3
NormaltestMin == 8

\* the normality tests of the Distribution tab, inside one try block: the
\* lines written before a test raises, and whether the except branch
\* warns.  small_raises tells the scipy build
NormalityLines(n, shapiro, small_raises) ==
    IF small_raises /\ shapiro # {} /\ n < ShapiroMin
    THEN [written |-> {}, warned |-> TRUE]
    ELSE IF small_raises /\ n < NormaltestMin
    THEN [written |-> shapiro, warned |-> TRUE]
    ELSE [written |-> shapiro \cup {"D'Agostino Test", "Anderson-Darling Test"},
          warned |-> FALSE]

NormalityTests(n, small_raises) ==
    NormalityLines(n, IF n <= ShapiroLimit THEN {"Shapiro-Wilk Test"} ELSE {}, small_raises)

\* the outcomes of the three scipy tests on a sample, in the scale of the
\* model: p-values in ten-thousandths, the Anderson-Darling statistic and
\* its five critical values in thousandths; nan is NaN
NoOutcome ==
    [shapiro_p |-> NaN, dagostino_p |-> NaN, statistic |-> NaN,
     critical_values |-> <<0, 0, 0, 0, 0>>]

\* anderson(data, dist='norm').significance_level, in tenths of a percent
AndersonSignificance == <<150, 100, 50, 25, 10>>

\* "Normal" if p > 0.05 else "Not Normal"; nan > 0.05 is False
NormalVerdictAtLeast(p) ==
    IF p # NaN /\ p >= 500 THEN "Normal" ELSE "Not Normal"

NormalVerdict(p) ==
    IF p # NaN /\ p > 500 THEN "Normal" ELSE "Not Normal"

\* "Normal" if statistic < critical_values[2] else "Not Normal" (Python's
\* index 2 is the third value)
AndersonVerdict(statistic, critical_values) ==
    IF statistic # NaN /\ statistic < critical_values[3] THEN "Normal" ELSE "Not Normal"

\* the verdict written on each line of the normality tests
NormalityVerdicts(written, outcome) ==
    {[test |-> "Shapiro-Wilk Test", verdict |-> NormalVerdict(outcome.shapiro_p)] :
        x \in written \cap {"Shapiro-Wilk Test"}}
    \cup {[test |-> "D'Agostino Test", verdict |-> NormalVerdict(outcome.dagostino_p)] :
            x \in written \cap {"D'Agostino Test"}}
    \cup {[test |-> "Anderson-Darling Test",
           verdict |-> AndersonVerdict(outcome.statistic, outcome.critical_values)] :
            x \in written \cap {"Anderson-Darling Test"}}

\* p < 0.05 for a p-value in ten-thousandths; nan < 0.05 is False
SignificantUpTo(p) == p # NaN /\ p <= 500

Significant(p) == p # NaN /\ p < 500

\* "Significant" if p < 0.05 else "Not Significant", the flag of ANOVA,
\* Kruskal-Wallis, the t-test, Mann-Whitney U, Pearson and Spearman
SignificanceFlag(p) == IF Significant(p) THEN "Significant" ELSE "Not Significant"

\* "Dependent" if chi2_p < 0.05 else "Independent"
DependenceFlag(p) == IF Significant(p) THEN "Dependent" ELSE "Independent"

\* the flag written on the line of each test, from the p-value scipy
\* returned for it
SignificanceFlags(tests, p_values) ==
    {[test |-> t,
      result |-> IF t = "Chi-square Test" THEN DependenceFlag(p_values[t])
                 ELSE SignificanceFlag(p_values[t])] : t \in tests}

TabDistribution == "Distribution Analysis"
TabHypothesis == "Hypothesis Testing"

TestAge == "Age differences between generations"
TestPlatform == "Streaming behavior by platform"
TestGenre == "Genre-Country independence"
TestTypes == {TestAge, TestPlatform, TestGenre}

\* the groups of the age-differences test: df[df['Age_Group'] == g]['Age']
GenerationAges(df, g) ==
    DropNaN([i \in DOMAIN RowsWhere(df, ColAgeGroup, g) |->
               RowsWhere(df, ColAgeGroup, g)[i][ColAge]])

\* df[df['Streaming Platform'] == platform][col].dropna(); a missing
\* platform (unique() lists it as a value) equals no cell
PlatformValues(df, col, platform) ==
    IF platform = NA THEN <<>>
    ELSE DropNaN([i \in DOMAIN RowsWhere(df, ColPlatform, platform) |->
                    RowsWhere(df, ColPlatform, platform)[i][col]])

\* platform_data: for each of the first three platforms, its non-missing
\* values of the streaming variable, kept when there is at least one
PlatformGroupsAll(df, col) ==
    LET platforms == Unique(Column(df, ColPlatform))
        values == [k \in DOMAIN platforms |-> PlatformValues(df, col, platforms[k])]
    IN SelectSeq(values, LAMBDA g : Len(g) > 0)

PlatformGroups(df, col) ==
    LET u == Unique(Column(df, ColPlatform))
        platforms == SubSeq(u, 1, IF Len(u) < 3 THEN Len(u) ELSE 3)
        values == [k \in DOMAIN platforms |-> PlatformValues(df, col, platforms[k])]
    IN SelectSeq(values, LAMBDA g : Len(g) > 0)

\* platform_data on the page of the streaming-behaviour test
PlatformData(df, test_type) ==
    IF test_type = TestPlatform /\ streaming_cols(df) # <<>> /\ ColPlatform \in df.cols
    THEN PlatformGroups(df, streaming_cols(df)[1])
    ELSE <<>>

\* the age-differences test: f_oneway and kruskal over gen_z, millennials
\* and gen_x when none of the three is empty
AgeTestsAnyGroup(df) ==
    IF ColAge \in df.cols /\ ColAgeGroup \in df.cols
       /\ (\/ Len(GenerationAges(df, GenZ)) > 0
           \/ Len(GenerationAges(df, Millennials)) > 0
           \/ Len(GenerationAges(df, GenX)) > 0)
    THEN {"One-way ANOVA", "Kruskal-Wallis Test"}
    ELSE {}

AgeTests(df) ==
    IF ColAge \in df.cols /\ ColAgeGroup \in df.cols
       /\ Len(GenerationAges(df, GenZ)) > 0
       /\ Len(GenerationAges(df, Millennials)) > 0
       /\ Len(GenerationAges(df, GenX)) > 0
    THEN {"One-way ANOVA", "Kruskal-Wallis Test"}
    ELSE {}

\* the streaming-behaviour test on platform_data: ttest_ind and
\* mannwhitneyu for two groups, f_oneway for three, nothing below two
PlatformTestsAnovaFromTwo(groups) ==
    IF Len(groups) >= 2 THEN {"One-way ANOVA"} ELSE {}

PlatformTests(groups) ==
    IF Len(groups) >= 2
    THEN IF Len(groups) = 2
         THEN {"Two-sample t-test", "Mann-Whitney U Test"}
         ELSE {"One-way ANOVA"}
    ELSE {}

\* the tests whose result the Hypothesis Testing tab writes
HypothesisTests(df, test_type) ==
    IF test_type = TestAge THEN AgeTests(df)
    ELSE IF test_type = TestPlatform
    THEN IF streaming_cols(df) # <<>> /\ ColPlatform \in df.cols
         THEN PlatformTests(PlatformGroups(df, streaming_cols(df)[1]))
         ELSE {}
    ELSE IF ColGenre \in df.cols /\ ColCountry \in df.cols
         THEN {"Chi-square Test"}
         ELSE {}

\* sum and product of the values of f over the finite set S
RECURSIVE SumOver(_, _)
SumOver(f, S) ==
    IF S = {} THEN 0
    ELSE LET x == CHOOSE x \in S : TRUE IN f[x] + SumOver(f, S \ {x})

RECURSIVE ProdOver(_, _)
ProdOver(f, S) ==
    IF S = {} THEN 1
    ELSE LET x == CHOOSE x \in S : TRUE IN f[x] * ProdOver(f, S \ {x})

\* pd.crosstab(df['Country'], df['Top Genre']): the records that have both
\* cells counted by (country, genre); index and columns are the values
\* that occur
Crosstab(df) ==
    LET kept == {i \in DOMAIN df.rows :
                    df.rows[i][ColCountry] # NA /\ df.rows[i][ColGenre] # NA}
        countries == {df.rows[i][ColCountry] : i \in kept}
        genres == {df.rows[i][ColGenre] : i \in kept}
    IN [index |-> countries, columns |-> genres,
        cell |-> [p \in countries \X genres |->
                    Cardinality({i \in kept : /\ df.rows[i][ColCountry] = p[1]
                                              /\ df.rows[i][ColGenre] = p[2]})]]

\* contingency_table.sum().sum()
GrandTotal(t) == SumOver(t.cell, t.index \X t.columns)

\* min(contingency_table.shape)
MinShape(t) ==
    IF Cardinality(t.index) < Cardinality(t.columns)
    THEN Cardinality(t.index) ELSE Cardinality(t.columns)

\* the degrees of freedom chi2_contingency reports
Dof(t) == (Cardinality(t.index) - 1) * (Cardinality(t.columns) - 1)

\* the row totals and the column totals of the contingency table
RowTotals(t) ==
    [c \in t.index |-> SumOver([g \in t.columns |-> t.cell[<<c, g>>]], t.columns)]

ColumnTotals(t) ==
    [g \in t.columns |-> SumOver([c \in t.index |-> t.cell[<<c, g>>]], t.index)]

\* twice n * |observed - expected| of a cell, after Yates' correction when
\* the table has one degree of freedom: the correction (scipy's default)
\* moves the observed count towards the expected one by min(0.5, distance)
TwiceDeviation(d, n, yates) ==
    IF yates
    THEN (IF 2 * (IF d < 0 THEN 0 - d ELSE d) > n
          THEN 2 * (IF d < 0 THEN 0 - d ELSE d) - n ELSE 0)
    ELSE 2 * (IF d < 0 THEN 0 - d ELSE d)

\* the sum over the cells of (observed - expected)^2 / expected, with
\* expected = row total * column total / n, as the fraction num / den
ChiSquareSum(t, n, r, k, all) ==
    [num |-> SumOver([p \in t.index \X t.columns |->
                        TwiceDeviation(n * t.cell[p] - r[p[1]] * k[p[2]], n, Dof(t) = 1)
                        * TwiceDeviation(n * t.cell[p] - r[p[1]] * k[p[2]], n, Dof(t) = 1)
                        * (all \div (r[p[1]] * k[p[2]]))],
                     t.index \X t.columns),
     den |-> 4 * n * all]

ChiSquareOfTotals(t, r, k) ==
    ChiSquareSum(t, GrandTotal(t), r, k, ProdOver(r, t.index) * ProdOver(k, t.columns))

\* the chi-square statistic of chi2_contingency as an exact fraction; with
\* no degree of freedom scipy returns 0.0, which the sum also gives
ChiSquare(t) == ChiSquareOfTotals(t, RowTotals(t), ColumnTotals(t))

\* floor(scale * scale * num / den) for a fraction num / den >= 0, digit
\* by digit so that no product leaves the 32-bit integers
ScaledFloor(num, den, scale) ==
    (num \div den) * scale * scale
    + (((num % den) * scale) \div den) * scale
    + ((((num % den) * scale) % den) * scale) \div den

\* the upper 5% points of the chi-square distribution in thousandths, by
\* degrees of freedom: the p-value is below 0.05 when the statistic exceeds
\* them
ChiSquareCritical == <<3841, 5991, 7815, 9488>>

\* chi2_p < 0.05; with no degree of freedom scipy returns p = 1.0
ChiSquareSignificant(dof, chi2) ==
    /\ dof > 0
    /\ (chi2.num \div chi2.den) * 1000 + ((chi2.num % chi2.den) * 1000) \div chi2.den
           > ChiSquareCritical[dof]

\* np.sqrt(chi2 / (n * (min(shape) - 1))): with a single country or a
\* single genre the divisor is numpy's integer 0 and 0.0 / 0 is nan (a
\* RuntimeWarning, no exception).  Otherwise zero |-> V = 0, squared |-> V^2
\* in units of 1/10000 rounded down, and above_one |-> V > 1
CramersV(chi2, n, min_shape) ==
    IF min_shape - 1 = 0
    THEN [nan |-> TRUE, zero |-> FALSE, squared |-> 0, above_one |-> FALSE]
    ELSE [nan |-> FALSE, zero |-> chi2.num = 0,
          squared |-> ScaledFloor(chi2.num, chi2.den * n * (min_shape - 1), 100),
          above_one |-> chi2.num > chi2.den * n * (min_shape - 1)]

\* "Small" if cramers_v < 0.1 else "Medium" if cramers_v < 0.3 else "Large";
\* every comparison with nan is False
EffectSize(v) ==
    IF ~v.nan /\ v.squared < 100 THEN "Small"
    ELSE IF ~v.nan /\ v.squared < 900 THEN "Medium"
    ELSE "Large"

NoIndependence ==
    [shown |-> FALSE, raised |-> FALSE, table |-> <<>>, dof |-> 0, significant |-> FALSE,
     result |-> "",
     v |-> [nan |-> FALSE, zero |-> FALSE, squared |-> 0, above_one |-> FALSE],
     effect_size |-> ""]

\* the lines the test writes: the chi-square verdict, Cramer's V and its
\* effect size, the contingency table
IndependenceReport(t, significant, v) ==
    [shown |-> TRUE, raised |-> FALSE, table |-> t.cell, dof |-> Dof(t),
     significant |-> significant,
     result |-> IF significant THEN "Dependent" ELSE "Independent",
     v |-> v, effect_size |-> EffectSize(v)]

ChiSquareTest(t, chi2) ==
    IndependenceReport(t, ChiSquareSignificant(Dof(t), chi2),
                       CramersV(chi2, GrandTotal(t), MinShape(t)))

\* the Genre-Country independence test; chi2_contingency raises ValueError
\* on a contingency table without cells
GenreCountryTable(t) ==
    IF GrandTotal(t) = 0 THEN [NoIndependence EXCEPT !.raised = TRUE]
    ELSE ChiSquareTest(t, ChiSquare(t))

GenreCountryTest(df) ==
    IF ColGenre \in df.cols /\ ColCountry \in df.cols
    THEN GenreCountryTable(Crosstab(df))
    ELSE NoIndependence

\* [col for col in numerical_cols if col in df.columns][:6]
numerical_cols_list(df) ==
    SubSeq(numerical_cols(df), 1,
           IF Len(numerical_cols(df)) < 6 THEN Len(numerical_cols(df)) ELSE 6)

\* [col for col in numerical_cols_list if col != var1]
OtherVariables(list, var1) == SelectSeq(list, LAMBDA c : c # var1)

\* df.loc[common_idx]: the records that have a value of both variables
CommonRecords(df, var1, var2) ==
    SelectSeq(df.rows, LAMBDA row : row[var1] # NaN /\ row[var2] # NaN)

Products(x, y) == [i \in DOMAIN x |-> x[i] * y[i]]

\* stats.pearsonr(x, y), kept exact: with n values,
\* cov = n * sum(xy) - sum(x) * sum(y), vx = n * sum(xx) - sum(x)^2 and vy
\* likewise, r has the sign of cov and r^2 = cov^2 / (vx * vy).  r is nan
\* when one of the two variables is constant
pearsonr(x, y) ==
    [cov |-> Len(x) * SeqSum(Products(x, y)) - SeqSum(x) * SeqSum(y),
     vx |-> Len(x) * SeqSum(Products(x, x)) - SeqSum(x) * SeqSum(x),
     vy |-> Len(y) * SeqSum(Products(y, y)) - SeqSum(y) * SeqSum(y)]

NoR == [cov |-> 0, vx |-> 0, vy |-> 0]

IsNan(r) == r.vx = 0 \/ r.vy = 0

\* abs(pearson_r) < 0.3 and abs(pearson_r) < 0.7: r^2 below 9/100 and
\* 49/100; a comparison with nan is False
AbsBelow3(r) == ~IsNan(r) /\ 100 * r.cov * r.cov < 9 * r.vx * r.vy
AbsBelow7(r) == ~IsNan(r) /\ 100 * r.cov * r.cov < 49 * r.vx * r.vy
AbsUpTo3(r) == ~IsNan(r) /\ 100 * r.cov * r.cov <= 9 * r.vx * r.vy
AbsUpTo7(r) == ~IsNan(r) /\ 100 * r.cov * r.cov <= 49 * r.vx * r.vy

\* the if/elif/else over abs(pearson_r)
StrengthUpTo(r) ==
    IF AbsUpTo3(r) THEN "Weak" ELSE IF AbsUpTo7(r) THEN "Moderate" ELSE "Strong"

Strength(r) ==
    IF AbsBelow3(r) THEN "Weak" ELSE IF AbsBelow7(r) THEN "Moderate" ELSE "Strong"

\* "Positive" if pearson_r > 0 else "Negative"
Direction(r) == IF ~IsNan(r) /\ r.cov > 0 THEN "Positive" ELSE "Negative"

NoCorrelation ==
    [shown |-> FALSE, var1 |-> "", var2 |-> "", n |-> 0, r |-> NoR, strength |-> "",
     direction |-> ""]

\* the Correlation Results and the Interpretation line
CorrelationResults(var1, var2, n, r) ==
    [shown |-> TRUE, var1 |-> var1, var2 |-> var2, n |-> n, r |-> r,
     strength |-> Strength(r), direction |-> Direction(r)]

\* if len(common_idx) > 3: the correlation of the two columns over the
\* common records
CorrelationOf(var1, var2, common) ==
    IF Len(common) > 3
    THEN CorrelationResults(var1, var2, Len(common),
                            pearsonr([i \in DOMAIN common |-> common[i][var1]],
                                     [i \in DOMAIN common |-> common[i][var2]]))
    ELSE NoCorrelation

CorrelationBetween(df, var1, var2) ==
    CorrelationOf(var1, var2, CommonRecords(df, var1, var2))

\* the Correlation tab: var1 is the option at position first of
\* numerical_cols_list, var2 the option at position second of the others
CorrelationTab(df, first, second) ==
    IF Len(numerical_cols_list(df)) >= 2
    THEN CorrelationBetween(df, numerical_cols_list(df)[first],
                            OtherVariables(numerical_cols_list(df),
                                           numerical_cols_list(df)[first])[second])
    ELSE NoCorrelation

-----------------------------------------------------------------------------
(* The script: main().                                                     *)

Overview == "Overview"
AgeAnalysis == "Age Analysis"
CountryAnalysis == "Country Analysis"
GenrePreferences == "Genre Preferences"
PlatformAnalysis == "Platform Analysis"
GeographicMaps == "Geographic Maps"
ListeningTimes == "Listening Times"
StatisticalAnalysis == "Statistical Analysis"
StrategicInsights == "Strategic Insights"

\* the options of the sidebar selectbox
AnalysisOptions ==
    <<Overview, AgeAnalysis, CountryAnalysis, GenrePreferences, PlatformAnalysis,
      GeographicMaps, ListeningTimes, StatisticalAnalysis, StrategicInsights>>

\* the selections of the widgets inside the views
\* var1 and var2 are the positions picked in the two selectboxes of the
\* Correlation tab (a selectbox starts on its first option)
NoParams ==
    [tie |-> TRUE, test_type |-> "", column |-> "", level |-> 0, small_raises |-> FALSE,
     var1 |-> 1, var2 |-> 1]

\* the key metrics under the header: Total Users, Countries, Avg Age and
\* Avg Daily Streaming (0 without the column)
NoMetrics == [total_users |-> 0, countries |-> 0, avg_age |-> NaNMean,
              avg_streaming |-> NaNMean]

KeyMetrics(df) ==
    [total_users |-> Len(df.rows),
     countries |-> Cardinality(Range(DropNa(Column(df, ColCountry)))),
     avg_age |-> Mean(Column(df, ColAge)),
     avg_streaming |-> IF ColMinutes \in df.cols THEN Mean(Column(df, ColMinutes))
                       ELSE NaNMean]

\* Generation Insights: gen_data['Count'].sum() over the rows of age_df of
\* one generation, 0 when there is none
UserCount(age_df, generation) ==
    SumOver([age \in AgeRange |->
               IF \E r \in age_df : r.Age = age /\ r.Generation = generation
               THEN (CHOOSE r \in age_df : r.Age = age /\ r.Generation = generation).Count
               ELSE 0],
            AgeRange)

NoInsights == [g \in {GenZ, Millennials, GenX} |-> 0]

\* a page on which nothing has been rendered
BlankPage ==
    [option |-> "", params |-> NoParams, halted |-> FALSE, error |-> NoError,
     header |-> FALSE, metrics |-> NoMetrics, footer |-> FALSE, raised |-> "none",
     messages |-> {}, sections |-> {}, crosstab |-> {}, age_df |-> {},
     user_count |-> NoInsights, country_df |-> {}, global_df |-> {}, choropleth |-> {}, normality |-> {},
     sample |-> 0, outcome |-> NoOutcome, verdicts |-> {},
     tests |-> {}, p_values |-> <<>>, results |-> {}, platform_data |-> <<>>,
     independence |-> NoIndependence, correlation |-> NoCorrelation,
     interval |-> NoInterval,
     table |-> EmptyTable]

\* st.error / st.warning: an inline message and the place that wrote it
Message(where, text) == [where |-> where, text |-> text]

\* one crosstab as rows that carry the name of their table
Tagged(table, rows) ==
    {[Table |-> table, Age_Group |-> r.Age_Group, Value |-> r.Value, Count |-> r.Count,
      Total |-> r.Total, Percentage |-> r.Percentage] : r \in rows}

ViewOverview(df) ==
    [sections |-> {"Dataset Statistics", "Top 10 Countries by Users"}
                  \cup (IF ColPlatform \in df.cols
                        THEN {"Streaming Platform Distribution"} ELSE {})]

\* px.bar(age_df, x='Age', ...) raises ValueError when age_df has no row
\* (a DataFrame built from an empty list has no column)
ViewAgeAnalysis(df) ==
    LET result == create_age_analysis(df)
    IN IF result.none
       THEN [messages |-> {Message(AgeAnalysis, result.message)}]
       ELSE IF result.rows = {}
       THEN [raised |-> "ValueError"]
       ELSE [sections |-> {"Age chart", "Generation Insights"},
             age_df |-> result.rows,
             user_count |-> [g \in {GenZ, Millennials, GenX} |-> UserCount(result.rows, g)]]

ViewCountryAnalysis(df) ==
    LET result == create_country_analysis(df)
    IN IF result.none
       THEN [messages |-> {Message(CountryAnalysis, result.message)}]
       ELSE [sections |-> {"Country chart", "Top 5 Countries"},
             country_df |-> result.rows]

ViewGenrePreferences(df, obs) ==
    IF ColGenre \in df.cols
    THEN [sections |-> {"Music Genres Distribution"}
                       \cup (IF ColAgeGroup \in df.cols
                             THEN {"Genre Preferences by Generation"} ELSE {})
                       \cup (IF ColCountry \in df.cols
                             THEN {"Genre Preferences by Country"} ELSE {}),
          crosstab |-> IF ColAgeGroup \in df.cols
                       THEN Tagged("generation x genre", GenerationCrosstab(df, ColGenre, obs))
                       ELSE {}]
    ELSE [messages |-> {Message(GenrePreferences, "Genre data not available in the dataset")}]

\* Platform Insights by Generation: gen_data.loc[gen_data['Percentage'].idxmax()]
\* raises KeyError when the generation's rows exist and all are NaN
PlatformInsightsRaise(rows) ==
    \E g \in Range(CutLabels) :
        /\ \E r \in rows : r.Age_Group = g
        /\ \A r \in rows : r.Age_Group = g => r.Percentage = NaN

ViewPlatformAnalysis(df, obs) ==
    IF ColPlatform \in df.cols
    THEN LET result == create_streaming_platform_analysis(df, obs)
             byGen == ColAgeGroup \in df.cols /\ ~result.none
             stop == byGen /\ PlatformInsightsRaise(result.rows)
             subs == ColSub \in df.cols /\ ~stop
         IN [sections |-> {"Overall Platform Distribution"}
                          \cup (IF byGen THEN {"Platform Preferences by Generation"} ELSE {})
                          \cup (IF byGen /\ ~stop
                                THEN {"Platform Insights by Generation",
                                      "Platform Dominance Analysis"} ELSE {})
                          \cup (IF subs THEN {"Subscription Type Distribution"} ELSE {}),
             crosstab |-> (IF byGen THEN Tagged("generation x platform", result.rows) ELSE {})
                          \cup (IF subs /\ ColAgeGroup \in df.cols
                                THEN Tagged("generation x subscription",
                                            GenerationCrosstab(df, ColSub, obs))
                                ELSE {}),
             raised |-> IF stop THEN "KeyError" ELSE "none"]
    ELSE [messages |-> {Message(PlatformAnalysis,
                                "Streaming Platform data not available in the dataset")}]

ViewGeographicMaps(df, tie) ==
    IF ColCountry \in df.cols
    THEN IF ChoroplethRaises(df)
         THEN [raised |-> "IndexError"]
         ELSE IF create_unified_choropleth_data(df, tie) # {}
         THEN [sections |-> {"Unified Interactive Choropleth Map", "Genre Insights by Country",
                             "Geographic Summary"}
                            \cup (IF ColArtist \in df.cols
                                  THEN {"Artist Insights by Country"} ELSE {}),
               choropleth |-> create_unified_choropleth_data(df, tie)]
         ELSE [messages |-> {Message(GeographicMaps,
                 "Could not generate choropleth data - insufficient country data available")}]
    ELSE [sections |-> {}]

\* Key Insights: global_df['Count'].idxmax() raises ValueError on an empty
\* global_df (every listening-time cell missing)
ViewListeningTimes(df, obs) ==
    LET result == create_listening_time_analysis(df)
    IN IF result.none
       THEN [messages |-> {Message(ListeningTimes, result.message)}]
       ELSE [sections |-> {"Global listening time distribution"}
                          \cup (IF ColAgeGroup \in df.cols
                                THEN {"Listening Time by Generation"} ELSE {})
                          \cup (IF result.rows # {} THEN {"Key Insights"} ELSE {}),
             global_df |-> result.rows,
             crosstab |-> IF ColAgeGroup \in df.cols
                          THEN Tagged("generation x listening time",
                                      GenerationCrosstab(df, ColTime, obs))
                          ELSE {},
             raised |-> IF result.rows = {} THEN "ValueError" ELSE "none"]

\* the four tabs of the Statistical Analysis view; column is the variable
\* selected in the Distribution and Confidence Interval tabs, small_raises
\* the behaviour of the scipy build on small samples.  An exception
\* of the Genre-Country test in the second tab ends the run there
StatisticalTabs(df, test_type, level, data, normality, independence, correlation) ==
    [sections |-> (IF Len(data) > 0 THEN {"Descriptive Statistics"} ELSE {})
                  \cup (IF HypothesisTests(df, test_type) # {} /\ ~independence.raised
                        THEN {test_type} ELSE {})
                  \cup (IF correlation.shown /\ ~independence.raised
                        THEN {"Correlation Results"} ELSE {})
                  \cup (IF Len(data) > 0 /\ ~independence.raised
                        THEN {"Confidence Interval Results"} ELSE {}),
     sample |-> Len(data),
     normality |-> IF Len(data) > 0 THEN normality.written ELSE {},
     messages |-> IF Len(data) > 0 /\ normality.warned
                  THEN {Message(TabDistribution,
                                "Some normality tests could not be performed")}
                  ELSE {},
     tests |-> IF independence.raised THEN {} ELSE HypothesisTests(df, test_type),
     platform_data |-> PlatformData(df, test_type),
     independence |-> independence,
     correlation |-> IF independence.raised THEN NoCorrelation ELSE correlation,
     interval |-> IF Len(data) > 0 /\ ~independence.raised
                  THEN ConfidenceInterval(data, level) ELSE NoInterval,
     raised |-> IF independence.raised THEN "ValueError" ELSE "none"]

ViewStatisticalAnalysis(df, test_type, column, level, small_raises, first, second) ==
    StatisticalTabs(df, test_type, level, DropNaN(Column(df, column)),
                    NormalityTests(Len(DropNaN(Column(df, column))), small_raises),
                    IF test_type = TestGenre THEN GenreCountryTest(df) ELSE NoIndependence,
                    CorrelationTab(df, first, second))

\* findings: value_counts().index[0] raises IndexError when the
\* listening-time column is present and every cell of it is missing
ViewStrategicInsights(df) ==
    IF ColTime \in df.cols /\ DropNa(Column(df, ColTime)) = <<>>
    THEN [raised |-> "IndexError"]
    ELSE [sections |-> {"Key Findings", "Strategic Recommendations", "Implementation Roadmap"}]

\* the frame df of main() once the selected view has run.  The views and
\* the aggregation functions read df through boolean filters, column
\* selections, groupby, value_counts and crosstab, which all build new
\* objects (sort_values is applied to country_df, without inplace); no
\* statement of lines 137-1321 assigns into df or calls a mutating method
TableAfterAssigning(df, option) ==
    IF option = AgeAnalysis THEN [df EXCEPT !.cols = @ \cup {"Generation"}] ELSE df

TableAfter(df, option) == df

\* the if/elif chain over analysis_option
View(df, obs, option, params) ==
    CASE option = Overview -> ViewOverview(df)
      [] option = AgeAnalysis -> ViewAgeAnalysis(df)
      [] option = CountryAnalysis -> ViewCountryAnalysis(df)
      [] option = GenrePreferences -> ViewGenrePreferences(df, obs)
      [] option = PlatformAnalysis -> ViewPlatformAnalysis(df, obs)
      [] option = GeographicMaps -> ViewGeographicMaps(df, params.tie)
      [] option = ListeningTimes -> ViewListeningTimes(df, obs)
      [] option = StatisticalAnalysis ->
             ViewStatisticalAnalysis(df, params.test_type, params.column, params.level,
                                     params.small_raises, params.var1, params.var2)
      [] option = StrategicInsights -> ViewStrategicInsights(df)
      [] OTHER -> [sections |-> {}]

\* the page of one execution of main() on a loaded table: header and key
\* metrics, the selected view, the footer unless the view raised
Render(df, obs, option, params) ==
    LET view == View(df, obs, option, params)
        head == [option |-> option, params |-> params, header |-> TRUE,
                 metrics |-> KeyMetrics(df), table |-> TableAfter(df, option)]
        page == view @@ head @@ BlankPage
    IN [page EXCEPT !.footer = (page.raised = "none")]

\* the page of an execution that load_data halted: the error, then st.stop()
HaltedPage(error) ==
    [BlankPage EXCEPT !.halted = TRUE, !.error = error,
                      !.messages = {Message("load_data", error.kind)}]

\* except Exception as e, around the whole body of load_data: the errors
\* the body raises (FileNotFoundError, ValueError) are Exceptions
ExceptValueError(error) == error.kind = "ValueError"

ExceptException(error) == error.kind \in {"FileNotFoundError", "ValueError"}

\* except FileNotFoundError as e, around the call of load_data in main():
\* two errors, then st.stop()
HandlerPage(error) ==
    [BlankPage EXCEPT !.halted = TRUE, !.error = error,
                      !.messages = {Message("main", "Dataset not found"),
                                    Message("main", "Looking for file at")}]

\* an exception that leaves main()
UncaughtPage(error) ==
    [BlankPage EXCEPT !.error = error, !.raised = error.kind]

\* the page of an execution whose load failed: load_data handles the error
\* itself and halts (st.stop() raises no Exception, it passes every except
\* clause); an error it did not handle would reach the handler of main()
FailedPage(error) ==
    IF ExceptException(error) THEN HaltedPage(error)
    ELSE IF error.kind = "FileNotFoundError" THEN HandlerPage(error)
    ELSE UncaughtPage(error)

-----------------------------------------------------------------------------
(* Actions.                                                                *)

\* One execution of the script with the sidebar on option: load_data (a
\* memo hit, or the body and its side effects), then the page.  main()
\* starts from its first line on every interaction: nothing of the page
\* before (no aggregate, no test result, no message) enters the new page,
\* the only value kept between executions is load_data's memo
RunScriptRetaining(option, params) ==
    LET loaded == load_data(cache, fs, csv)
    IN /\ reads + loaded.read <= MaxReads
       /\ cache' = IF loaded.ok THEN [hit |-> TRUE, df |-> loaded.df] ELSE cache
       /\ reads' = reads + loaded.read
       /\ derives' = derives + loaded.derived
       /\ run' = IF loaded.ok
                 THEN [Render(loaded.df, observed, option, params)
                         EXCEPT !.messages = @ \cup run.messages, !.tests = @ \cup run.tests]
                 ELSE FailedPage(loaded.error)
       /\ UNCHANGED <<fs, csv, observed>>

RunScript(option, params) ==
    LET loaded == load_data(cache, fs, csv)
    IN /\ reads + loaded.read <= MaxReads
       /\ cache' = IF loaded.ok THEN [hit |-> TRUE, df |-> loaded.df] ELSE cache
       /\ reads' = reads + loaded.read
       /\ derives' = derives + loaded.derived
       /\ run' = IF loaded.ok THEN Render(loaded.df, observed, option, params)
                 ELSE FailedPage(loaded.error)
       /\ UNCHANGED <<fs, csv, observed>>

SelectOverview == RunScript(Overview, NoParams)

SelectAgeAnalysis == RunScript(AgeAnalysis, NoParams)

SelectCountryAnalysis == RunScript(CountryAnalysis, NoParams)

SelectGenrePreferences == RunScript(GenrePreferences, NoParams)

SelectPlatformAnalysis == RunScript(PlatformAnalysis, NoParams)

SelectGeographicMaps ==
    \E tie \in BOOLEAN : RunScript(GeographicMaps, [NoParams EXCEPT !.tie = tie])

SelectListeningTimes == RunScript(ListeningTimes, NoParams)

SelectStatisticalAnalysis ==
    \E test_type \in TestTypes, column \in Range(NumericColumns), level \in ConfLevels,
       small_raises \in BOOLEAN :
        /\ load_data(cache, fs, csv).ok =>
               column \in Range(numerical_cols(load_data(cache, fs, csv).df))
        /\ RunScript(StatisticalAnalysis,
                     [NoParams EXCEPT !.test_type = test_type, !.column = column,
                                      !.level = level,
                                      !.small_raises = small_raises])

SelectStrategicInsights == RunScript(StrategicInsights, NoParams)

\* the Statistical Analysis view with one test type picked in the
\* Hypothesis Testing tab and the other widgets on their defaults: the
\* first numeric column (Age) and the 95% level
SelectTest(test_type) ==
    \E small_raises \in BOOLEAN :
        RunScript(StatisticalAnalysis,
                  [NoParams EXCEPT !.test_type = test_type, !.column = ColAge,
                                   !.level = 95, !.small_raises = small_raises])

SelectAgeTest == SelectTest(TestAge)

SelectPlatformTest == SelectTest(TestPlatform)

SelectGenreCountryTest == SelectTest(TestGenre)

\* the Statistical Analysis view with the two variables picked in the
\* Correlation tab (the first option of each selectbox when the tab shows
\* none) and the other widgets on their defaults
CorrelationOptions(loaded) ==
    IF loaded.ok /\ Len(numerical_cols_list(loaded.df)) >= 2
    THEN Len(numerical_cols_list(loaded.df)) ELSE 1

SelectCorrelation ==
    \E first \in 1..Len(NumericColumns), second \in 1..Len(NumericColumns) :
        /\ first <= CorrelationOptions(load_data(cache, fs, csv))
        /\ second <= 1 \/ second < CorrelationOptions(load_data(cache, fs, csv))
        /\ RunScript(StatisticalAnalysis,
                     [NoParams EXCEPT !.test_type = TestAge, !.column = ColAge, !.level = 95,
                                      !.var1 = first, !.var2 = second])

\* the environment removes the dataset from every candidate location
DeleteFile ==
    /\ fs # {}
    /\ fs' = {}
    /\ UNCHANGED <<csv, observed, cache, reads, derives, run>>

-----------------------------------------------------------------------------
(* Dataset files the model draws.                                          *)

FileColumns ==
    {ColAge, ColCountry, ColPlatform, ColGenre, ColSub, ColMinutes, ColLiked,
     ColTime, ColArtist}

DefaultCells ==
    (ColAge :> 20) @@ (ColCountry :> "USA") @@ (ColPlatform :> "Spotify")
    @@ (ColGenre :> "Pop") @@ (ColSub :> "Free") @@ (ColMinutes :> 30)
    @@ (ColLiked :> 5) @@ (ColTime :> "Morning") @@ (ColArtist :> "Adele")

\* a record of the file: the cells given, the default in every other column
Record(cells) == cells @@ DefaultCells

\* the record restricted to the columns the file has
Project(row, cols) == [c \in cols |-> row[c]]

\* every sequence of 1..n elements of S
RECURSIVE SeqsUpTo(_, _)
SeqsUpTo(S, n) ==
    IF n = 0 THEN {<<>>}
    ELSE LET shorter == SeqsUpTo(S, n - 1)
         IN shorter \cup {Append(t, x) : t \in shorter, x \in S}

Tables(S) == SeqsUpTo(S, MaxRows) \ {<<>>}

\* the environment replaces the content of the dataset file
ReplacementFile ==
    [cols |-> FileColumns,
     rows |-> <<Record((ColAge :> 45) @@ (ColCountry :> "UK") @@ (ColGenre :> "Jazz"))>>]

RewriteFile ==
    /\ csv # ReplacementFile
    /\ csv' = ReplacementFile
    /\ UNCHANGED <<fs, observed, cache, reads, derives, run>>

\* the interactions of the sessions with the dashboard
Script ==
    \/ SelectOverview
    \/ SelectAgeAnalysis
    \/ SelectCountryAnalysis
    \/ SelectGenrePreferences
    \/ SelectPlatformAnalysis
    \/ SelectGeographicMaps
    \/ SelectListeningTimes
    \/ SelectStatisticalAnalysis
    \/ SelectStrategicInsights

\* the sessions and the environment
Next ==
    \/ SelectOverview
    \/ SelectAgeAnalysis
    \/ SelectCountryAnalysis
    \/ SelectGenrePreferences
    \/ SelectPlatformAnalysis
    \/ SelectGeographicMaps
    \/ SelectListeningTimes
    \/ SelectStatisticalAnalysis
    \/ SelectStrategicInsights
    \/ DeleteFile
    \/ RewriteFile

\* the state of a fresh process: nothing memoized, nothing rendered
Start(files, file) ==
    /\ fs = files
    /\ csv = file
    /\ observed \in BOOLEAN
    /\ cache = [hit |-> FALSE, df |-> EmptyTable]
    /\ reads = 0
    /\ derives = 0
    /\ run = BlankPage

\* Files: the dataset at any set of locations, without any one or two of
\* six columns
ColumnSets ==
    {FileColumns \ gone :
        gone \in {g \in SUBSET {ColAge, ColGenre, ColMinutes, ColLiked, ColTime, ColSub} :
                     Cardinality(g) <= 2}}

SampleRows ==
    <<Record((ColAge :> 20)),
      Record((ColAge :> 30) @@ (ColPlatform :> "Tidal") @@ (ColGenre :> "Rock")),
      Record((ColAge :> 45) @@ (ColCountry :> "Spain") @@ (ColTime :> "Night"))>>

\* the sets of locations drawn: none, the primary, alternatives only
LocationSets == {{}, {1}, {2, 3}, {3, 4}, {4}, {1, 4}}

Init ==
    \E files \in LocationSets, cols \in ColumnSets :
        Start(files, [cols |-> cols,
                      rows |-> [i \in DOMAIN SampleRows |-> Project(SampleRows[i], cols)]])

Spec == Init /\ [][Next]_vars

\* Generations: records of every generation and of none, two genres; the
\* platform, subscription and listening time vary with the genre
Rock ==
    (ColGenre :> "Rock") @@ (ColPlatform :> "Tidal") @@ (ColSub :> "Premium")
    @@ (ColTime :> "Night")

GenerationRows ==
    {Record((ColAge :> 20)), Record((ColAge :> 20) @@ Rock), Record((ColAge :> 30)),
     Record((ColAge :> 45) @@ Rock), Record((ColAge :> 101))}

InitGenerations ==
    \E rows \in Tables(GenerationRows) :
        Start({PathPrimary}, [cols |-> FileColumns, rows |-> rows])

SpecGenerations == InitGenerations /\ [][Script]_vars

\* Listening times: records of two generations, the listening time given
\* or missing
TimeRows ==
    {Record((ColAge :> 20) @@ (ColTime :> "Morning")),
     Record((ColAge :> 20) @@ (ColTime :> "Night")),
     Record((ColAge :> 45) @@ (ColTime :> "Morning")),
     Record((ColAge :> 20) @@ (ColTime :> NA)),
     Record((ColAge :> 45) @@ (ColTime :> NA))}

InitTimes ==
    \E rows \in Tables(TimeRows) :
        Start({PathPrimary}, [cols |-> FileColumns, rows |-> rows])

SpecTimes == InitTimes /\ [][Script]_vars

\* Countries: two countries of the ISO lookup table and one outside it
CountryRows ==
    {Record((ColCountry :> "USA") @@ (ColGenre :> "Pop")),
     Record((ColCountry :> "USA") @@ (ColGenre :> "Rock")),
     Record((ColCountry :> "UK") @@ (ColGenre :> "Pop")),
     Record((ColCountry :> "Spain") @@ (ColGenre :> "Pop")),
     Record((ColCountry :> "Spain") @@ (ColGenre :> "Rock"))}

InitCountries ==
    \E rows \in Tables(CountryRows) :
        Start({PathPrimary}, [cols |-> FileColumns, rows |-> rows])

SpecCountries == InitCountries /\ [][Script]_vars

\* Choropleth: a country of the ISO lookup table, one outside it and
\* records without country, each with two genres and without genre, and a
\* record without artist; sessions open the Geographic Maps view
ChoroplethRows ==
    {Record((ColCountry :> country) @@ (ColGenre :> genre)) :
        country \in {"USA", "Spain", NA}, genre \in {"Pop", "Rock", NA}}
    \cup {Record((ColCountry :> "UK") @@ (ColArtist :> NA))}

InitChoropleth ==
    \E rows \in Tables(ChoroplethRows) :
        Start({PathPrimary}, [cols |-> FileColumns, rows |-> rows])

SpecChoropleth == InitChoropleth /\ [][SelectGeographicMaps]_vars

\* Samples: the streaming minutes given or missing, on two platforms
SampleValueRows ==
    {Record((ColPlatform :> "Spotify") @@ (ColMinutes :> minutes)) : minutes \in {NaN, 10, 30}}
    \cup {Record((ColPlatform :> "Tidal") @@ (ColMinutes :> minutes)) : minutes \in {NaN, 10}}

InitSamples ==
    \E rows \in Tables(SampleValueRows) :
        Start({PathPrimary}, [cols |-> FileColumns, rows |-> rows])

SpecSamples == InitSamples /\ [][Script]_vars

\* Ages: one record of every age around the bins
AgeDomain == 0..103

InitAges ==
    \E age \in AgeDomain :
        Start({PathPrimary}, [cols |-> FileColumns, rows |-> <<Record((ColAge :> age))>>])

SpecAges == InitAges /\ [][Script]_vars

\* Age tables: up to MaxAges records with ages of the three generations and
\* the lower edge of the first bin; sessions run the age-differences test
MaxAges == 4

AgePool == {0, 20, 30, 45}

InitAgeTables ==
    \E ages \in SeqsUpTo(AgePool, MaxAges) \ {<<>>} :
        Start({PathPrimary},
              [cols |-> FileColumns,
               rows |-> [i \in DOMAIN ages |-> Record((ColAge :> ages[i]))]])

SpecAgeTables == InitAgeTables /\ [][SelectAgeTest]_vars

\* Age views: up to MaxAges records with ages at the edges of the
\* generations and outside the ages of create_age_analysis; sessions open
\* the Age Analysis view
EdgeAges == {12, 25, 26, 41, 42, 61}

InitAgeViews ==
    \E ages \in SeqsUpTo(EdgeAges, MaxAges) \ {<<>>} :
        Start({PathPrimary},
              [cols |-> FileColumns,
               rows |-> [i \in DOMAIN ages |-> Record((ColAge :> ages[i]))]])

SpecAgeViews == InitAgeViews /\ [][SelectAgeAnalysis]_vars

\* Contingency tables: MaxCount or fewer records on the diagonal of two
\* countries and two genres, at most one record off the diagonal and at
\* most one of a third genre; sessions open the Statistical Analysis view
MaxCount == 3

\* count records of one country and genre
ContingencyRows(country, genre, count) ==
    [i \in 1..count |-> Record((ColCountry :> country) @@ (ColGenre :> genre))]

InitContingency ==
    \E usa_pop \in 0..MaxCount, uk_rock \in 0..MaxCount,
       usa_rock \in 0..1, uk_pop \in 0..1, uk_jazz \in 0..1 :
        /\ usa_pop + uk_rock + usa_rock + uk_pop + uk_jazz > 0
        /\ Start({PathPrimary},
                 [cols |-> FileColumns,
                  rows |-> ContingencyRows("USA", "Pop", usa_pop)
                           \o ContingencyRows("USA", "Rock", usa_rock)
                           \o ContingencyRows("UK", "Pop", uk_pop)
                           \o ContingencyRows("UK", "Rock", uk_rock)
                           \o ContingencyRows("UK", "Jazz", uk_jazz)])

SpecContingency == InitContingency /\ [][SelectGenreCountryTest]_vars

\* Platform groups: for each of four platforms up to MaxGroup records with
\* streaming minutes (10, 20, ... plus the position of the platform) and at
\* most one record without; sessions run the streaming-behaviour test
MaxGroup == 1

PlatformNames == <<"Spotify", "Tidal", "Deezer", "YouTube">>

PlatformRows(k, with_data, without) ==
    [i \in 1..with_data |->
       Record((ColPlatform :> PlatformNames[k]) @@ (ColMinutes :> 10 * i + k))]
    \o [i \in 1..without |->
          Record((ColPlatform :> PlatformNames[k]) @@ (ColMinutes :> NaN))]

PlatformTable(with_data, without) ==
    PlatformRows(1, with_data[1], without[1])
    \o PlatformRows(2, with_data[2], without[2])
    \o PlatformRows(3, with_data[3], without[3])
    \o PlatformRows(4, with_data[4], without[4])

PlatformFile(cols, rows) ==
    [cols |-> cols, rows |-> [i \in DOMAIN rows |-> Project(rows[i], cols)]]

InitPlatforms ==
    \E with_data \in [DOMAIN PlatformNames -> 0..MaxGroup],
       without \in [DOMAIN PlatformNames -> 0..1],
       cols \in {FileColumns, FileColumns \ {ColMinutes}} :
        /\ \E k \in DOMAIN PlatformNames : with_data[k] + without[k] > 0
        /\ Start({PathPrimary}, PlatformFile(cols, PlatformTable(with_data, without)))

SpecPlatforms == InitPlatforms /\ [][SelectPlatformTest]_vars

\* Normality tests: the block of the Distribution tab applied to a sample
\* of n values and to the outcomes of the three scipy tests on it, for
\* sample sizes around the limits of the tests
SampleSizes == {1, 2, 3, 7, 8, 9, 4999, 5000, 5001}

PValues == {NaN, 0, 499, 500, 501, 10000}

AndersonStatistics == {NaN, 100, 786, 787, 788}

\* anderson's critical values for a large sample and for eight values
AndersonCriticalValues == {<<576, 656, 787, 918, 1092>>, <<510, 581, 697, 813, 967>>}

\* the page before the block runs: the sample size, the build and the
\* outcomes the tests will have
SamplePage(n, small_raises, outcome) ==
    [BlankPage EXCEPT !.option = StatisticalAnalysis,
                      !.params = [NoParams EXCEPT !.small_raises = small_raises],
                      !.sample = n, !.outcome = outcome]

\* the block of the normality tests on the sample of the page
WriteNormalityLines(normality) ==
    /\ run.option = StatisticalAnalysis /\ ~run.header
    /\ run.normality = {} /\ run.messages = {}
    /\ run' = [run EXCEPT !.normality = normality.written,
                          !.verdicts = NormalityVerdicts(normality.written, run.outcome),
                          !.messages = IF normality.warned
                                       THEN {Message(TabDistribution,
                                               "Some normality tests could not be performed")}
                                       ELSE {}]
    /\ UNCHANGED <<fs, csv, observed, cache, reads, derives>>

WriteNormalityTests ==
    WriteNormalityLines(NormalityTests(run.sample, run.params.small_raises))

\* a build that does not raise on a sample too small for a test returns nan
InitNormality ==
    \E n \in SampleSizes, small_raises \in BOOLEAN, shapiro_p \in PValues,
       dagostino_p \in PValues, statistic \in AndersonStatistics,
       critical_values \in AndersonCriticalValues :
        /\ (~small_raises /\ n < ShapiroMin) => shapiro_p = NaN
        /\ (~small_raises /\ n < NormaltestMin) => dagostino_p = NaN
        /\ fs = {PathPrimary}
        /\ csv = [cols |-> FileColumns, rows |-> SampleRows]
        /\ observed = FALSE
        /\ cache = [hit |-> FALSE, df |-> EmptyTable]
        /\ reads = 0
        /\ derives = 0
        /\ run = SamplePage(n, small_raises,
                            [shapiro_p |-> shapiro_p, dagostino_p |-> dagostino_p,
                             statistic |-> statistic,
                             critical_values |-> critical_values])

SpecNormality == InitNormality /\ [][WriteNormalityTests]_vars

\* Pairs: MaxPairs records whose streaming minutes follow XValues and
\* whose liked songs are drawn, the first record with both values, without
\* its minutes or without its liked songs; the age is the same in every
\* record.  Files with three, two and one numeric column; sessions pick the
\* variables of the Correlation tab
MaxPairs == 4

XValues == <<0, 1, 3, 4, 2, 5>>

YValues == {0, 1, 3, 4}

PairRows(y, missing) ==
    [i \in 1..MaxPairs |->
       Record((ColMinutes :> IF i = 1 /\ missing = 1 THEN NaN ELSE XValues[i])
              @@ (ColLiked :> IF i = 1 /\ missing = 2 THEN NaN ELSE y[i]))]

InitCorrelation ==
    \E missing \in 0..2 :
        \/ \E y \in [1..MaxPairs -> YValues] :
               Start({PathPrimary}, PlatformFile(FileColumns, PairRows(y, missing)))
        \/ \E cols \in {FileColumns \ {ColLiked}, FileColumns \ {ColMinutes, ColLiked}} :
               Start({PathPrimary},
                     PlatformFile(cols, PairRows([i \in 1..MaxPairs |-> 0], missing)))

SpecCorrelation == InitCorrelation /\ [][SelectCorrelation]_vars

\* Significance flags: the lines of the tests that are written together
\* (the age test, the platform test on two and on three groups, the
\* Genre-Country test, the Correlation tab), for p-values around 0.05
TestLines ==
    {{"One-way ANOVA", "Kruskal-Wallis Test"}, {"Two-sample t-test", "Mann-Whitney U Test"},
     {"One-way ANOVA"}, {"Chi-square Test"}, {"Pearson r", "Spearman rho"}}

\* the page before the flags are written: the tests and their p-values
TestsPage(tests, p_values) ==
    [BlankPage EXCEPT !.option = StatisticalAnalysis, !.tests = tests,
                      !.p_values = p_values]

WriteSignificanceFlags ==
    /\ run.option = StatisticalAnalysis /\ ~run.header
    /\ run.tests # {} /\ run.results = {}
    /\ run' = [run EXCEPT !.results = SignificanceFlags(run.tests, run.p_values)]
    /\ UNCHANGED <<fs, csv, observed, cache, reads, derives>>

InitSignificance ==
    \E tests \in TestLines :
        \E p_values \in [tests -> PValues] :
            /\ fs = {PathPrimary}
            /\ csv = [cols |-> FileColumns, rows |-> SampleRows]
            /\ observed = FALSE
            /\ cache = [hit |-> FALSE, df |-> EmptyTable]
            /\ reads = 0
            /\ derives = 0
            /\ run = TestsPage(tests, p_values)

SpecSignificance == InitSignificance /\ [][WriteSignificanceFlags]_vars

-----------------------------------------------------------------------------
(* Properties.                                                             *)

\* the table the last rendered page was computed from
Loaded == cache.df

RECURSIVE SumPercentage(_)
SumPercentage(rows) ==
    IF rows = {} THEN 0
    ELSE LET r == CHOOSE x \in rows : TRUE
         IN r.Percentage + SumPercentage(rows \ {r})

RECURSIVE SumCount(_)
SumCount(rows) ==
    IF rows = {} THEN 0
    ELSE LET r == CHOOSE x \in rows : TRUE
         IN r.Count + SumCount(rows \ {r})

Distance(a, b) == IF a < b THEN b - a ELSE a - b

\* percentages (in tenths) that sum to 100 within 0.05 for each row
SumsTo100(rows) ==
    /\ \A r \in rows : r.Percentage # NaN
    /\ 2 * Distance(SumPercentage(rows), 1000) <= Cardinality(rows)

\* the Age Group the specification states for an age of [0,100]
StatedAgeGroup(age) ==
    IF age <= 25 THEN GenZ ELSE IF age <= 41 THEN Millennials ELSE GenX

\* C1: every record whose Age is an integer of 0..100 is in exactly one bin
\* and carries the label of its range: Gen Z for 0..25, Millennials for
\* 26..41, Gen X for 42..100.
C1_AgeGroupTotalOnZeroToHundred ==
    cache.hit =>
        \A i \in DOMAIN Loaded.rows :
            LET age == Loaded.rows[i][ColAge]
            IN age \in 0..100 =>
                   /\ Cardinality(CutHits(age)) = 1
                   /\ Loaded.rows[i][ColAgeGroup] = StatedAgeGroup(age)

\* C2: after a successful load every record carries one of the three Age
\* Group labels, whatever its Age.
C2_EveryRecordHasAgeGroup ==
    cache.hit =>
        \A i \in DOMAIN Loaded.rows : Loaded.rows[i][ColAgeGroup] \in Range(CutLabels)

\* C3: in every generation crosstab of the page, the percentages of each
\* generation key sum to 100 within 0.05 per row.
C3_GenerationPercentagesSumTo100 ==
    \A r \in run.crosstab :
        SumsTo100({x \in run.crosstab : x.Table = r.Table /\ x.Age_Group = r.Age_Group})

\* C4: the listening-time percentages sum to 100 within rounding, and each
\* is its bucket's count over the sum of the bucket counts.
C4_ListeningPercentagesSumTo100 ==
    (run.option = ListeningTimes /\ ColTime \in Loaded.cols) =>
        /\ SumsTo100(run.global_df)
        /\ \A r \in run.global_df :
               r.Percentage = Percentage(r.Count, SumCount(run.global_df))

\* C5: a country outside the ISO lookup table has no row in the choropleth
\* data or a row flagged as unmappable (no map key), and no row carries the
\* code of another country.
C5_UnmappedCountryExcludedOrFlagged ==
    \A r \in run.choropleth :
        /\ r.Country \notin DOMAIN country_iso_mapping => r.ISO_Code = NA
        /\ r.ISO_Code \in Range(country_iso_mapping) =>
               /\ r.Country \in DOMAIN country_iso_mapping
               /\ country_iso_mapping[r.Country] = r.ISO_Code

Contains(outer, inner) ==
    /\ ~outer.nan
    /\ ~inner.nan
    /\ outer.lo <= inner.lo
    /\ inner.hi <= outer.hi

\* C6: the confidence interval shown for a variable with at least one value
\* contains the sample mean, and the interval of a lower level lies within
\* the interval of every higher level.
C6_IntervalContainsMeanAndNests ==
    run.interval.shown =>
        LET data == DropNaN(Column(Loaded, run.params.column))
        IN /\ ~run.interval.nan
           /\ run.interval.lo <= run.interval.mean
           /\ run.interval.mean <= run.interval.hi
           /\ \A low \in ConfLevels, high \in ConfLevels :
                  low <= high =>
                      Contains(ConfidenceInterval(data, high), ConfidenceInterval(data, low))

\* C7: an execution whose load finds the file at no candidate location, or
\* reads a file that lacks a required column, halts on the error that lists
\* the tried paths, respectively the missing columns; it renders nothing,
\* memoizes no table and derives no Age Group.
C7_LoadFailsFast ==
    [][(/\ fs' = fs
        /\ csv' = csv
        /\ ~cache.hit
        /\ (DataPath(fs) = 0 \/ Range(required_columns) \ csv.cols # {}))
       => /\ run'.halted
          /\ ~run'.header
          /\ ~run'.footer
          /\ run'.sections = {}
          /\ run'.option = ""
          /\ DataPath(fs) = 0 =>
                 /\ run'.error.kind = "FileNotFoundError"
                 /\ run'.error.tried = Candidates
          /\ DataPath(fs) # 0 =>
                 /\ run'.error.kind = "ValueError"
                 /\ Range(run'.error.missing) = Range(required_columns) \ csv.cols
          /\ ~cache'.hit
          /\ derives' = derives]_vars

C7_Witness ==
    /\ run.halted
    /\ run.error.kind = "ValueError"
    /\ run.error.missing = <<ColAge, ColGenre>>
    /\ reads > 0
    /\ derives = 0

\* the views whose required column is absent from the table
RequiredColumnAbsent(df, option, params) ==
    \/ option \in {AgeAnalysis, CountryAnalysis} /\ AvailableVars(df) = <<>>
    \/ option = ListeningTimes /\ ColTime \notin df.cols
    \/ /\ option = StatisticalAnalysis
       /\ params.test_type = TestPlatform
       /\ streaming_cols(df) = <<>>

\* C8: a view whose required column is absent writes an inline message,
\* omits its output, raises nothing, and the page is completed by the footer.
C8_AbsentColumnIsReported ==
    (run.header /\ RequiredColumnAbsent(Loaded, run.option, run.params)) =>
        /\ \E m \in run.messages :
               m.where = IF run.option = StatisticalAnalysis THEN TabHypothesis
                         ELSE run.option
        /\ run.tests = {}
        /\ run.age_df = {}
        /\ run.country_df = {}
        /\ run.global_df = {}
        /\ run.raised = "none"
        /\ run.footer

\* the hypothesis tests whose precondition the table does not meet
PreconditionUnmet(df, test_type) ==
    \/ /\ test_type = TestPlatform
       /\ streaming_cols(df) # <<>>
       /\ Len(PlatformGroups(df, streaming_cols(df)[1])) < 2
    \/ /\ test_type = TestAge
       /\ \E g \in Range(CutLabels) : Len(GenerationAges(df, g)) = 0

\* C9: a hypothesis test whose precondition is unmet writes an inline
\* message and no result, and the page is completed by the footer.
C9_UnmetPreconditionIsReported ==
    (/\ run.header
     /\ run.option = StatisticalAnalysis
     /\ PreconditionUnmet(Loaded, run.params.test_type))
    => /\ \E m \in run.messages : m.where = TabHypothesis
       /\ run.tests = {}
       /\ run.footer

\* C10: once a load has succeeded, no step reads the file or derives the
\* Age Group again, the memoized table never changes, and every page
\* rendered afterwards is the page of that table.
C10_LoadedOnceAndReused ==
    [][cache.hit =>
          /\ cache' = cache
          /\ reads' = reads
          /\ derives' = derives
          /\ run' # run =>
                 /\ run'.header
                 /\ run' = Render(cache.df, observed, run'.option, run'.params)]_vars

C10_Witness ==
    /\ cache.hit
    /\ reads = 1
    /\ fs = {}
    /\ csv = ReplacementFile
    /\ Loaded # WithAgeGroup(csv)
    /\ run.header
    /\ run.metrics = KeyMetrics(Loaded)
    /\ run.metrics.total_users = Len(SampleRows)


ViewSections(option) ==
    CASE option = Overview ->
             {"Dataset Statistics", "Top 10 Countries by Users",
              "Streaming Platform Distribution"}
      [] option = AgeAnalysis -> {"Age chart", "Generation Insights"}
      [] option = CountryAnalysis -> {"Country chart", "Top 5 Countries"}
      [] option = GenrePreferences ->
             {"Music Genres Distribution", "Genre Preferences by Generation",
              "Genre Preferences by Country"}
      [] option = PlatformAnalysis ->
             {"Overall Platform Distribution", "Platform Preferences by Generation",
              "Platform Insights by Generation", "Platform Dominance Analysis",
              "Subscription Type Distribution"}
      [] option = GeographicMaps ->
             {"Unified Interactive Choropleth Map", "Genre Insights by Country",
              "Geographic Summary", "Artist Insights by Country"}
      [] option = ListeningTimes ->
             {"Global listening time distribution", "Listening Time by Generation",
              "Key Insights"}
      [] option = StatisticalAnalysis ->
             {"Descriptive Statistics", "Correlation Results",
              "Confidence Interval Results"} \cup TestTypes
      [] option = StrategicInsights ->
             {"Key Findings", "Strategic Recommendations", "Implementation Roadmap"}
      [] OTHER -> {}

\* the places whose messages belong to the view of option
ViewPlaces(option) ==
    IF option = StatisticalAnalysis THEN {TabDistribution, TabHypothesis} ELSE {option}

\* some selection of the widgets inside the views
SomeParams ==
    [NoParams EXCEPT !.test_type = TestGenre, !.column = ColAge, !.level = 95]

\* the selector offers nine distinct options, every option has a branch
\* that renders something, and a page carries output of the selected view
\* only, under the key metrics of the loaded table
OnlySelectedViewRendered ==
    /\ Len(AnalysisOptions) = 9
    /\ Cardinality(Range(AnalysisOptions)) = 9
    /\ run.header =>
          /\ run.option \in Range(AnalysisOptions)
          /\ run.sections \subseteq ViewSections(run.option)
          /\ \A o \in Range(AnalysisOptions) \ {run.option} :
                 run.sections \cap ViewSections(o) = {}
          /\ \A m \in run.messages : m.where \in ViewPlaces(run.option)
          /\ \A o \in Range(AnalysisOptions) :
                 LET page == Render(Loaded, observed, o, SomeParams)
                 IN page.sections # {} \/ page.messages # {} \/ page.raised # "none"
          /\ run.metrics = KeyMetrics(Loaded)

\* C12: the selector offers exactly the nine views, each option has a
\* handling branch, every run renders the output of the selected view and
\* of no other, and every run that loaded successfully renders the header
\* metrics and the footer, whatever the selection.
C12_SelectedViewHeaderAndFooter ==
    /\ OnlySelectedViewRendered
    /\ run.header => run.footer

\* the number of loaded records that carry the Age Group g
AgeGroupCount(g) == Len(RowsWhere(Loaded, ColAgeGroup, g))

\* for the ages 20, 20, 30, 45 in any order the counts are 2, 1, 1
ExampleAgeGroupCounts ==
    (/\ cache.hit
     /\ Len(Loaded.rows) = 4
     /\ \A age \in {30, 45} : CountOf(Column(Loaded, ColAge), age) = 1
     /\ CountOf(Column(Loaded, ColAge), 20) = 2)
    => /\ AgeGroupCount(GenZ) = 2
       /\ AgeGroupCount(Millennials) = 1
       /\ AgeGroupCount(GenX) = 1

\* C13: for the ages {20, 20, 30, 45} the Age Group counts after load are
\* Gen Z 2, Millennials 1, Gen X 1, and for every loaded table the three
\* Age Group counts sum to the number of records.
C13_AgeGroupCountsSumToRecords ==
    /\ ExampleAgeGroupCounts
    /\ cache.hit =>
          AgeGroupCount(GenZ) + AgeGroupCount(Millennials) + AgeGroupCount(GenX)
              = Len(Loaded.rows)

\* the result of the Genre-Country test on the page, when one is shown
Independence == run.independence

\* C14: the Cramer's V the Genre-Country test reports lies in [0, 1] for
\* every contingency table built from a loaded table, tables with a single
\* country or a single genre included.
C14_CramersVWithinUnitInterval ==
    Independence.shown => (~Independence.v.nan /\ ~Independence.v.above_one)

\* the same for the tables with two or more countries and genres
CramersVWithinUnitIntervalFromTwoByTwo ==
    (Independence.shown /\ MinShape(Crosstab(Loaded)) >= 2)
    => (~Independence.v.nan /\ ~Independence.v.above_one)

\* every cell equals row total x column total / grand total
Proportional(t) ==
    \A p \in t.index \X t.columns :
        GrandTotal(t) * t.cell[p]
            = SumOver([g \in t.columns |-> t.cell[<<p[1], g>>]], t.columns)
              * SumOver([c \in t.index |-> t.cell[<<c, p[2]>>]], t.index)

ReportsIndependence ==
    /\ Independence.result = "Independent"
    /\ ~Independence.v.nan /\ Independence.v.zero
    /\ Independence.effect_size = "Small"

\* C15: for a Country x Top Genre contingency table whose cells are all
\* proportional across rows and columns the Genre-Country test reports
\* Independent, a Cramer's V of 0 and the effect size Small.
C15_ProportionalTableIsIndependent ==
    (Independence.shown /\ Proportional(Crosstab(Loaded))) => ReportsIndependence

\* the same for the tables with two or more countries and genres
ProportionalFromTwoByTwoIsIndependent ==
    (/\ Independence.shown /\ Proportional(Crosstab(Loaded))
     /\ MinShape(Crosstab(Loaded)) >= 2) => ReportsIndependence

\* the label the thresholds 0.1 and 0.3 give to V (V^2 is compared with
\* 0.01 and 0.09); nan is on no side of a threshold and has no label
ThresholdLabel(v) ==
    IF v.nan THEN "none"
    ELSE IF v.squared < 100 THEN "Small"
    ELSE IF v.squared < 900 THEN "Medium"
    ELSE "Large"

\* C20: the effect-size label is Small when V < 0.1, Medium when
\* 0.1 <= V < 0.3 and Large when V >= 0.3, and Large is reported only when
\* V >= 0.3.
C20_EffectSizeByThresholds ==
    Independence.shown => Independence.effect_size = ThresholdLabel(Independence.v)

\* the same for the tables with two or more countries and genres
EffectSizeByThresholdsFromTwoByTwo ==
    (Independence.shown /\ MinShape(Crosstab(Loaded)) >= 2)
    => Independence.effect_size = ThresholdLabel(Independence.v)

\* a page on which the normality tests of a non-empty sample were attempted
NormalityAttempted ==
    /\ run.option = StatisticalAnalysis /\ run.sample > 0
    /\ (run.normality # {} \/ run.messages # {})

\* C16: Shapiro-Wilk is run only when the number of non-missing values of
\* the selected variable is below the 5000-row threshold and is skipped
\* otherwise; the D'Agostino and Anderson-Darling tests are run for every
\* sample size.
C16_ShapiroBelowThresholdOthersAlways ==
    NormalityAttempted =>
        /\ "Shapiro-Wilk Test" \in run.normality <=> run.sample < ShapiroLimit
        /\ {"D'Agostino Test", "Anderson-Darling Test"} \subseteq run.normality

\* what the code does: Shapiro-Wilk is never run above the threshold, and
\* from eight values on (from one value on when the scipy build does not
\* raise on small samples) it is run up to the threshold inclusive, with
\* the two other tests
NormalityTestsRunFromEightValues ==
    NormalityAttempted =>
        /\ run.sample > ShapiroLimit => "Shapiro-Wilk Test" \notin run.normality
        /\ (run.sample >= NormaltestMin \/ ~run.params.small_raises) =>
              /\ "Shapiro-Wilk Test" \in run.normality <=> run.sample <= ShapiroLimit
              /\ {"D'Agostino Test", "Anderson-Darling Test"} \subseteq run.normality

\* the critical value of the Anderson-Darling test at the 5% level
CriticalValueAtFivePercent ==
    run.outcome.critical_values[CHOOSE i \in DOMAIN AndersonSignificance :
                                    AndersonSignificance[i] = 50]

\* C17: every normality test gives a binary verdict at alpha = 0.05:
\* Shapiro-Wilk and D'Agostino report Normal exactly when their p-value is
\* greater than 0.05 (p = 0.05 gives Not Normal), Anderson-Darling exactly
\* when its statistic is strictly below the critical value at the 5%
\* significance level.
C17_NormalityVerdicts ==
    \A line \in run.verdicts :
        /\ line.verdict \in {"Normal", "Not Normal"}
        /\ line.test = "Shapiro-Wilk Test" =>
              (line.verdict = "Normal"
                  <=> (run.outcome.shapiro_p # NaN /\ run.outcome.shapiro_p > 500))
        /\ line.test = "D'Agostino Test" =>
              (line.verdict = "Normal"
                  <=> (run.outcome.dagostino_p # NaN /\ run.outcome.dagostino_p > 500))
        /\ line.test = "Anderson-Darling Test" =>
              (line.verdict = "Normal"
                  <=> (run.outcome.statistic # NaN
                       /\ run.outcome.statistic < CriticalValueAtFivePercent))

C17_Witness ==
    /\ run.sample = ShapiroLimit /\ ~run.header
    /\ run.outcome.shapiro_p = 500 /\ run.outcome.dagostino_p = 501
    /\ run.outcome.statistic = 786 /\ CriticalValueAtFivePercent = 787
    /\ run.verdicts = {[test |-> "Shapiro-Wilk Test", verdict |-> "Not Normal"],
                       [test |-> "D'Agostino Test", verdict |-> "Normal"],
                       [test |-> "Anderson-Darling Test", verdict |-> "Normal"]}

\* the row in which a platform first appears in the loaded table
FirstAppearance(platform) ==
    CHOOSE i \in DOMAIN Loaded.rows :
        /\ Loaded.rows[i][ColPlatform] = platform
        /\ \A j \in 1..(i - 1) : Loaded.rows[j][ColPlatform] # platform

\* the platform groups of the test that have data: the platforms among
\* the first three to appear that have a streaming value
PlatformsWithData ==
    IF ColMinutes \in Loaded.cols
    THEN {platform \in Range(Column(Loaded, ColPlatform)) :
             /\ Cardinality({q \in Range(Column(Loaded, ColPlatform)) :
                                FirstAppearance(q) < FirstAppearance(platform)}) < 3
             /\ \E i \in DOMAIN Loaded.rows :
                    /\ Loaded.rows[i][ColPlatform] = platform
                    /\ Loaded.rows[i][ColMinutes] # NaN}
    ELSE {}

PlatformTestPage ==
    run.header /\ run.option = StatisticalAnalysis /\ run.params.test_type = TestPlatform

\* C18: in the streaming-behaviour-by-platform test, exactly two platform
\* groups with data give the two-sample t-test and the Mann-Whitney U test
\* and no ANOVA, three or more give one-way ANOVA and neither two-sample
\* test, fewer than two give no test.
C18_PlatformTestsByGroupCount ==
    PlatformTestPage =>
        /\ Cardinality(PlatformsWithData) = 2 =>
              run.tests = {"Two-sample t-test", "Mann-Whitney U Test"}
        /\ Cardinality(PlatformsWithData) >= 3 => run.tests = {"One-way ANOVA"}
        /\ Cardinality(PlatformsWithData) < 2 => run.tests = {}

C18_Witness ==
    /\ PlatformTestPage
    /\ Cardinality(Range(Column(Loaded, ColPlatform))) = 3
    /\ Cardinality(PlatformsWithData) = 2
    /\ run.tests = {"Two-sample t-test", "Mann-Whitney U Test"}

AgeTestPage ==
    run.header /\ run.option = StatisticalAnalysis /\ run.params.test_type = TestAge

\* C19: the age-differences test computes one-way ANOVA and Kruskal-Wallis
\* over the three fixed generation groups, always both together, and only
\* when each of the three groups has at least one record; if any group is
\* empty neither test is computed.
C19_AgeTestsNeedThreeGroups ==
    AgeTestPage =>
        IF \A g \in {GenZ, Millennials, GenX} : AgeGroupCount(g) > 0
        THEN run.tests = {"One-way ANOVA", "Kruskal-Wallis Test"}
        ELSE run.tests = {}

C19_Witness ==
    /\ AgeTestPage
    /\ run.tests = {"One-way ANOVA", "Kruskal-Wallis Test"}
    /\ AgeGroupCount(GenZ) = 2 /\ AgeGroupCount(Millennials) = 1
    /\ AgeGroupCount(GenX) = 1

\* a page that shows the results of the Correlation tab
CorrelationPage ==
    run.header /\ run.option = StatisticalAnalysis /\ run.correlation.shown

\* the records of the loaded table that have a value of both variables
BothPresent(var1, var2) ==
    {i \in DOMAIN Loaded.rows : Loaded.rows[i][var1] # NaN /\ Loaded.rows[i][var2] # NaN}

\* r^2 in units of 1/10000, rounded down; r is a number
SquaredR(r) == ScaledFloor(r.cov * r.cov, r.vx * r.vy, 100)

\* the band stated for r (nan is outside the first two bands)
StatedStrength(r) ==
    IF ~IsNan(r) /\ SquaredR(r) < 900 THEN "Weak"
    ELSE IF ~IsNan(r) /\ SquaredR(r) < 4900 THEN "Moderate"
    ELSE "Strong"

\* C21: the interpretation of a correlation is Weak when |r| < 0.3,
\* Moderate when 0.3 <= |r| < 0.7 and Strong otherwise, Positive exactly
\* when r > 0 and Negative otherwise; results are shown only for two
\* distinct variables of which more than three records have both values.
C21_CorrelationBandsAndGate ==
    CorrelationPage =>
        /\ run.correlation.var1 # run.correlation.var2
        /\ {run.correlation.var1, run.correlation.var2} \subseteq Range(numerical_cols(Loaded))
        /\ Cardinality(BothPresent(run.correlation.var1, run.correlation.var2)) > 3
        /\ run.correlation.n
               = Cardinality(BothPresent(run.correlation.var1, run.correlation.var2))
        /\ run.correlation.strength = StatedStrength(run.correlation.r)
        /\ (run.correlation.direction = "Positive")
               <=> (~IsNan(run.correlation.r) /\ run.correlation.r.cov > 0)
        /\ run.correlation.direction \in {"Positive", "Negative"}

\* a correlation of exactly 0.3 between two columns is shown as Moderate
\* Positive
C21_Witness ==
    /\ CorrelationPage
    /\ ~IsNan(run.correlation.r)
    /\ 100 * run.correlation.r.cov * run.correlation.r.cov
           = 9 * run.correlation.r.vx * run.correlation.r.vy
    /\ run.correlation.strength = "Moderate"
    /\ run.correlation.direction = "Positive"

\* a page of the Geographic Maps view
MapsPage == run.header /\ run.option = GeographicMaps

\* the countries that occur in the loaded table, and the records of one
Countries == Range(DropNa(Column(Loaded, ColCountry)))

RecordsOf(country) == RowsWhere(Loaded, ColCountry, country)

\* the map key stated for a country
StatedIsoCode(country) ==
    IF country \in DOMAIN country_iso_mapping THEN country_iso_mapping[country] ELSE country

\* every country of the table has a row with the stated map key and its
\* number of users, and no row has another key
RowOfEveryCountry ==
    /\ \A c \in Countries :
          \E r \in run.choropleth :
              /\ r.Country = c
              /\ r.ISO_Code = StatedIsoCode(c)
              /\ r.TotalUsers = Len(RecordsOf(c))
    /\ \A r \in run.choropleth : r.ISO_Code = StatedIsoCode(r.Country)

\* C22: the ISO_Code of a country is the code of the ten-country lookup
\* table when the country is one of the ten and the raw country name
\* otherwise, and the row of an unmapped country is emitted with its
\* statistics.
C22_IsoCodeFromLookupOrRawName ==
    /\ Cardinality(DOMAIN country_iso_mapping) = 10
    /\ MapsPage => RowOfEveryCountry

\* the same on the pages of runs that did not raise
IsoCodeFromLookupUnlessRaised ==
    (MapsPage /\ run.raised = "none") => RowOfEveryCountry

\* an unmapped country emitted under its raw name
UnmappedCountryEmitted ==
    /\ MapsPage
    /\ \E r \in run.choropleth : r.Country = "Spain" /\ r.ISO_Code = "Spain"
    /\ \E r \in run.choropleth : r.Country = "USA" /\ r.ISO_Code = "USA"

RECURSIVE SumTotalUsers(_)
SumTotalUsers(rows) ==
    IF rows = {} THEN 0
    ELSE LET r == CHOOSE x \in rows : TRUE
         IN r.TotalUsers + SumTotalUsers(rows \ {r})

\* one row per country, each with the number of records of its country,
\* and the numbers sum to the number of records of the table
OneRowPerCountry ==
    /\ \A c \in Countries : Cardinality({r \in run.choropleth : r.Country = c}) = 1
    /\ \A r \in run.choropleth :
          r.Country \in Countries /\ r.TotalUsers = Len(RecordsOf(r.Country))
    /\ SumTotalUsers(run.choropleth) = Len(Loaded.rows)

\* C23: the choropleth data has exactly one row per distinct country of the
\* table, each row's Total Users is the number of records of its country,
\* and the Total Users of all rows sum to the number of records of the
\* table.
C23_OneRowPerCountryTotalsSumToRecords ==
    MapsPage => OneRowPerCountry

\* the same on the pages of runs that did not raise, for tables whose
\* records all have a country
TotalsSumToRecordsWithCountry ==
    (/\ MapsPage
     /\ run.raised = "none"
     /\ \A i \in DOMAIN Loaded.rows : Loaded.rows[i][ColCountry] # NA)
        => OneRowPerCountry

\* two countries on the map whose totals sum to the three records
TotalsOfTwoCountries ==
    /\ MapsPage
    /\ Cardinality(run.choropleth) = 2
    /\ Len(Loaded.rows) = 3
    /\ SumTotalUsers(run.choropleth) = 3

\* the number of records of a country with a genre
GenreCount(country, genre) ==
    Cardinality({i \in DOMAIN Loaded.rows :
                    /\ Loaded.rows[i][ColCountry] = country
                    /\ Loaded.rows[i][ColGenre] = genre})

\* every country has a row whose genre is one of the most frequent of the
\* country, with its share of the country's users
ModalGenreOfEveryCountry ==
    \A c \in Countries :
        \E r \in run.choropleth :
            /\ r.Country = c
            /\ r.MostPopularGenre # NA
            /\ \A i \in DOMAIN Loaded.rows :
                  Loaded.rows[i][ColGenre] # NA =>
                      GenreCount(c, Loaded.rows[i][ColGenre])
                          <= GenreCount(c, r.MostPopularGenre)
            /\ r.GenrePercentage
                  = RoundHalfEven(1000 * GenreCount(c, r.MostPopularGenre), Len(RecordsOf(c)))

\* C24: for every country Most Popular Genre is a genre of maximal count in
\* the country and Genre Percentage is 100 x its count / Total Users rounded
\* to one decimal; the summary is produced without error for every country
\* that has at least one record.
C24_ModalGenreAndShareWithoutError ==
    MapsPage => (run.raised = "none" /\ ModalGenreOfEveryCountry)

\* the same on the pages of runs that did not raise
ModalGenreUnlessRaised ==
    (MapsPage /\ run.raised = "none") => ModalGenreOfEveryCountry

\* a country with two genres of equal count and one with a single genre
ModalGenreAmongTies ==
    /\ MapsPage
    /\ \E r \in run.choropleth :
          r.TotalUsers = 2 /\ r.MostPopularGenre = "Rock" /\ r.GenrePercentage = 500
    /\ \E r \in run.choropleth : r.TotalUsers = 1 /\ r.GenrePercentage = 1000

AgePage == run.header /\ run.option = AgeAnalysis /\ run.raised = "none" /\ run.messages = {}

\* C26: for every age of 13..60 that occurs in the table, the generation
\* create_age_analysis computes (<= 25 Gen Z, <= 41 Millennials, else
\* Gen X) is the Age Group load_data attached to the records of that age.
C26_GenerationEqualsAgeGroup ==
    AgePage =>
        /\ \A i \in DOMAIN Loaded.rows :
              Loaded.rows[i][ColAge] \in 13..60 =>
                  \E r \in run.age_df :
                      /\ r.Age = Loaded.rows[i][ColAge]
                      /\ r.Generation = Loaded.rows[i][ColAgeGroup]
        /\ \A r \in run.age_df :
              /\ r.Age \in 13..60
              /\ \A i \in DOMAIN Loaded.rows :
                    Loaded.rows[i][ColAge] = r.Age => Loaded.rows[i][ColAgeGroup] = r.Generation

\* a record of age 25, the upper edge of Gen Z in both computations
C26_Witness ==
    /\ AgePage
    /\ \E r \in run.age_df : r.Age = 25 /\ r.Generation = GenZ
    /\ \E i \in DOMAIN Loaded.rows :
          Loaded.rows[i][ColAge] = 25 /\ Loaded.rows[i][ColAgeGroup] = GenZ

\* the Total Users of every generation is the number of records of its
\* Age Group, and the three sum to the number of records
TotalUsersAreAgeGroupCounts ==
    /\ \A g \in {GenZ, Millennials, GenX} : run.user_count[g] = AgeGroupCount(g)
    /\ run.user_count[GenZ] + run.user_count[Millennials] + run.user_count[GenX]
           = Len(Loaded.rows)

\* C27: in the Age Analysis view the Total Users of each generation (the
\* sum of the per-age Counts of the generation) is the number of loaded
\* records whose Age Group is that generation, and the three totals sum to
\* the number of records of the table.
C27_TotalUsersEqualAgeGroupCounts ==
    AgePage => TotalUsersAreAgeGroupCounts

\* the same for the tables whose ages all lie in 13..60
TotalUsersOfAgesInRange ==
    (AgePage /\ \A i \in DOMAIN Loaded.rows : Loaded.rows[i][ColAge] \in AgeRange)
        => TotalUsersAreAgeGroupCounts

\* records of the three generations within 13..60, counted 2, 1 and 1
TotalUsersOfThreeGenerations ==
    /\ AgePage
    /\ run.user_count[GenZ] = 2
    /\ run.user_count[Millennials] = 1
    /\ run.user_count[GenX] = 1
    /\ Len(Loaded.rows) = 4

\* C28: load_data has exactly two outcomes, a table or a halted session.
\* A run either renders the page of the table load_data returned, or ends
\* inside load_data on its error and st.stop(); no load exception reaches
\* main(), whose FileNotFoundError handler writes on no page.
C28_LoadReturnsOrHalts ==
    [][run' # run =>
          /\ run'.header \/ run'.halted
          /\ ~(run'.header /\ run'.halted)
          /\ run'.header => (cache'.hit /\ run'.error = NoError /\ run'.table = cache'.df)
          /\ run'.halted =>
                /\ run'.error.kind \in {"FileNotFoundError", "ValueError"}
                /\ run'.messages = {Message("load_data", run'.error.kind)}
                /\ run'.raised = "none"
                /\ ~cache'.hit
          /\ \A m \in run'.messages : m.where # "main"]_vars

\* a run that found the file at no location: halted inside load_data, with
\* load_data's message only
C28_Witness ==
    /\ fs = {} /\ csv = ReplacementFile /\ ~cache.hit
    /\ run.halted /\ ~run.header
    /\ run.error.kind = "FileNotFoundError"
    /\ run.messages = {Message("load_data", "FileNotFoundError")}

\* the distinct platforms that appear before a platform in the loaded table
AppearBefore(platform) ==
    {q \in Range(Column(Loaded, ColPlatform)) : FirstAppearance(q) < FirstAppearance(platform)}

\* the streaming values of the records of a platform, in table order
StreamingValuesOf(platform) ==
    DropNaN([i \in DOMAIN RowsWhere(Loaded, ColPlatform, platform) |->
               RowsWhere(Loaded, ColPlatform, platform)[i][ColMinutes]])

\* C29: the streaming-behaviour-by-platform test considers only the first
\* three distinct platforms in order of first appearance and drops those
\* without a streaming value: every group is the values of one of these
\* platforms, in that order, no record of a fourth or later platform is in
\* a group, and at most three groups are compared.
C29_OnlyFirstThreePlatforms ==
    PlatformTestPage =>
        /\ Len(run.platform_data) <= 3
        /\ Len(run.platform_data) = Cardinality(PlatformsWithData)
        /\ \A platform \in PlatformsWithData :
              /\ Cardinality(AppearBefore(platform)) < 3
              /\ run.platform_data[Cardinality(AppearBefore(platform) \cap PlatformsWithData) + 1]
                    = StreamingValuesOf(platform)
        /\ \A k \in DOMAIN run.platform_data :
              /\ run.platform_data[k] # <<>>
              /\ \A v \in Range(run.platform_data[k]) :
                    \A i \in DOMAIN Loaded.rows :
                        (ColMinutes \in Loaded.cols /\ Loaded.rows[i][ColMinutes] = v)
                            => Cardinality(AppearBefore(Loaded.rows[i][ColPlatform])) < 3

\* four platforms with streaming values: three groups are compared, the
\* fourth platform is left out
C29_Witness ==
    /\ PlatformTestPage
    /\ ColMinutes \in Loaded.cols
    /\ Cardinality(Range(Column(Loaded, ColPlatform))) = 4
    /\ \A platform \in Range(Column(Loaded, ColPlatform)) : StreamingValuesOf(platform) # <<>>
    /\ Len(run.platform_data) = 3
    /\ run.tests = {"One-way ANOVA"}

\* C30: every group-difference, independence and correlation test flags
\* its result as Significant (Dependent for chi-square) exactly when its
\* p-value is strictly below 0.05; a p-value of 0.05 is flagged as not
\* significant.
C30_SignificantBelowFivePercent ==
    /\ run.results # {} => {r.test : r \in run.results} = run.tests
    /\ \A r \in run.results :
          /\ r.result = (IF r.test = "Chi-square Test"
                         THEN (IF run.p_values[r.test] \in 0..499
                               THEN "Dependent" ELSE "Independent")
                         ELSE (IF run.p_values[r.test] \in 0..499
                               THEN "Significant" ELSE "Not Significant"))
          /\ run.p_values[r.test] = 500 => r.result \in {"Not Significant", "Independent"}

\* a correlation with p = 0.0499 flagged Significant next to one with
\* p = 0.05 flagged Not Significant
C30_Witness ==
    /\ [test |-> "Pearson r", result |-> "Significant"] \in run.results
    /\ [test |-> "Spearman rho", result |-> "Not Significant"] \in run.results
    /\ run.p_values["Pearson r"] = 499
    /\ run.p_values["Spearman rho"] = 500

====
